---- MODULE Spec2Model ----
(***************************************************************************)
(* A model of the s390 KVM guest address space mapping code                *)
(* (arch/s390/mm/gmap.c): the guest address space object with its forward  *)
(* (guest_to_host) and reverse (host_to_guest) maps, the table walker, the *)
(* segment-level protection code, the shadow tables with their reverse     *)
(* mapping store, and the life cycle of a gmap on its mm's list.           *)
(*                                                                         *)
(* Addresses are unsigned words of WordBits bits.  The geometry of the     *)
(* translation tables is the code's with every table index scaled down to  *)
(* IdxBits bits and the page offset to PAGE_SHIFT bits.                    *)
(***************************************************************************)
EXTENDS Integers, Naturals, Sequences, FiniteSets, TLC

(* ------------------------------------------------------------------ *)
(* Geometry                                                           *)
(* ------------------------------------------------------------------ *)

\* bits of one table index (11 for a region or segment table, 8 for a page table)
IdxBits == 1
\* bits of the offset in a page (12); at least 3, the rmap tag lives there
PAGE_SHIFT == 3

RECURSIVE Pow2(_)
Pow2(n) == IF n <= 0 THEN 1 ELSE 2 * Pow2(n - 1)

PMD_SHIFT == PAGE_SHIFT + IdxBits
_SEGMENT_SHIFT == PMD_SHIFT
_REGION3_SHIFT == _SEGMENT_SHIFT + IdxBits
_REGION2_SHIFT == _REGION3_SHIFT + IdxBits
_REGION1_SHIFT == _REGION2_SHIFT + IdxBits
WordBits == _REGION1_SHIFT + IdxBits

PAGE_SIZE == Pow2(PAGE_SHIFT)
PMD_SIZE == Pow2(PMD_SHIFT)
HPAGE_SIZE == PMD_SIZE
_SEGMENT_SIZE == Pow2(_SEGMENT_SHIFT)
_REGION3_SIZE == Pow2(_REGION3_SHIFT)
_REGION2_SIZE == Pow2(_REGION2_SHIFT)
_REGION1_SIZE == Pow2(_REGION1_SHIFT)
WORD == Pow2(WordBits)
ULONG_MAX == WORD - 1
_CRST_ENTRIES == Pow2(IdxBits)
_PAGE_ENTRIES == Pow2(IdxBits)
TASK_SIZE_MAX == WORD - PAGE_SIZE

\* unsigned arithmetic of the word
Add(a, b) == (a + b) % WORD
Sub(a, b) == (a - b + WORD) % WORD
\* a & ~(size - 1) and a & (size - 1), size a power of two
AlignDown(a, size) == a - (a % size)
\* a mask that finds every address aligned
low_aligned(a, size) == 0

Low(a, size) == a % size

RECURSIVE BitOr(_, _)
BitOr(a, b) ==
    IF a = 0 THEN b
    ELSE IF b = 0 THEN a
    ELSE (IF (a % 2) + (b % 2) > 0 THEN 1 ELSE 0) + 2 * BitOr(a \div 2, b \div 2)

\* errno values, returned negated
EFAULT == 14
ENOMEM == 12
EINVAL == 22
EAGAIN == 11
EEXIST == 17

\* asce types: (asce & _ASCE_TYPE_MASK)
_ASCE_TYPE_REGION1 == 12
_ASCE_TYPE_REGION2 == 8
_ASCE_TYPE_REGION3 == 4
_ASCE_TYPE_SEGMENT == 0

(* ------------------------------------------------------------------ *)
(* Table entries and table pages                                      *)
(* ------------------------------------------------------------------ *)

\* One entry of a region, segment or page table.  o: the origin (the page of
\* the next table, or the host frame of a leaf), i: invalid, p: protect,
\* l: large (a leaf), uc: _SEGMENT_ENTRY_GMAP_UC, gin: _SEGMENT_ENTRY_GMAP_IN,
\* tt: the table-type bits.
Entry(o, i, p, l, uc, gin, tt) ==
    [o |-> o, i |-> i, p |-> p, l |-> l, uc |-> uc, gin |-> gin, tt |-> tt]

EmptyEntry(tt) == Entry(0, TRUE, FALSE, FALSE, FALSE, FALSE, tt)
_SEGMENT_ENTRY_EMPTY == EmptyEntry(_ASCE_TYPE_SEGMENT)
_REGION3_ENTRY_EMPTY == EmptyEntry(_ASCE_TYPE_REGION3)
_REGION2_ENTRY_EMPTY == EmptyEntry(_ASCE_TYPE_REGION2)
_REGION1_ENTRY_EMPTY == EmptyEntry(_ASCE_TYPE_REGION1)

\* number of table pages of the machine
MaxPages == 5
Pages == 1 .. MaxPages
\* the NULL pointer to a table entry
NULL == [pg |-> 0, ix |-> 0]
Ptr(pg, ix) == [pg |-> pg, ix |-> ix]

crst_table_init(init) == [ix \in 0 .. (_CRST_ENTRIES - 1) |-> init]

(* ------------------------------------------------------------------ *)
(* State                                                              *)
(* ------------------------------------------------------------------ *)

VARIABLES
    mem,                 \* the table pages: page -> index -> entry
    pg_alloc,            \* the table pages that are allocated
    gmap,                \* the non-shadow guest address space (struct gmap)
    guest_to_host,       \* gmap->guest_to_host: gaddr >> PMD_SHIFT -> vmaddr
    host_to_guest,       \* gmap->host_to_guest: vmaddr >> PMD_SHIFT -> gaddr | 1
    allow_gmap_hpage_1m, \* mm->context.allow_gmap_hpage_1m
    facility,            \* the machine: "tlb_guest", "idte" or "none"
    ret,                 \* the last call: its name, arguments and return value
    events,              \* what the last call did to segment entries, in order
    fwd,                 \* history: what gmap_map_segment last mapped a segment to
    linked,              \* history: what __gmap_link last linked a segment to
    sg,                  \* the shadow guest address space, a child of gmap
    host_to_rmap,        \* sg->host_to_rmap: vmaddr >> PAGE_SHIFT -> list of raddr
    rmap_live,           \* history: struct gmap_rmap allocated and not yet freed
    thr,                 \* the calls of gmap_shadow_sgt/pgt in flight, per thread
    mm,                  \* mm->context: gmap_list (root tables of its gmaps), gmap_asce
    gmap_ref_count,      \* gmap->ref_count; 0: gmap_free has freed the gmap
    rm,                  \* the call of gmap_remove(gmap): where it is, what it waits for
    rd,                  \* the traversals of mm->context.gmap_list, per thread
    siblings,            \* the other gmaps gmap_create has made for the mm
    gmap_notifier_list,  \* the list of the registered struct gmap_notifier
    nbs,                 \* per struct gmap_notifier: registered, being unregistered
    disp,                \* the calls of gmap_call_notifier in flight, per thread
    reg_order,           \* history: the registered notifiers, oldest first
    lt,                  \* the calls that take locks, per thread: where each is, what it holds
    gpage                \* one guest page: its host pte, its segment entry, its shadow pte

mapVars == <<mem, pg_alloc, gmap, guest_to_host, host_to_guest,
             allow_gmap_hpage_1m, facility, ret, events, fwd, linked>>

shadowVars == <<sg, host_to_rmap, rmap_live, thr>>

lifeVars == <<mm, gmap_ref_count, rm, rd>>

globalVars == <<siblings, gmap_notifier_list, nbs, disp, reg_order>>

lockVars == <<lt, gpage>>

vars == <<mapVars, shadowVars, lifeVars, globalVars, lockVars>>

\* bounds of the arguments the calls are made with: guest segments, host
\* segments, the length of a range in segments
MaxGSeg == 1
MaxHSeg == 1
MaxLenSegs == 2

\* the indices of the two radix trees that the calls of the model can reach
MaxIndex == MaxGSeg + MaxHSeg + MaxLenSegs
SegIndices == 0 .. MaxIndex
\* history value: nothing recorded
None == 0 - 1

(* ------------------------------------------------------------------ *)
(* gmap_alloc, the table walker                                        *)
(* ------------------------------------------------------------------ *)

\* struct gmap as gmap_alloc leaves it, its root table in page `page`
gmap_alloc(limit, page) ==
    IF limit < _REGION3_SIZE THEN
        [asce_type |-> _ASCE_TYPE_SEGMENT, asce_end |-> _REGION3_SIZE - 1,
         etype |-> _SEGMENT_ENTRY_EMPTY, table |-> page, parent |-> 0, removed |-> FALSE]
    ELSE IF limit < _REGION2_SIZE THEN
        [asce_type |-> _ASCE_TYPE_REGION3, asce_end |-> _REGION2_SIZE - 1,
         etype |-> _REGION3_ENTRY_EMPTY, table |-> page, parent |-> 0, removed |-> FALSE]
    ELSE IF limit < _REGION1_SIZE THEN
        [asce_type |-> _ASCE_TYPE_REGION2, asce_end |-> _REGION1_SIZE - 1,
         etype |-> _REGION2_ENTRY_EMPTY, table |-> page, parent |-> 0, removed |-> FALSE]
    ELSE
        [asce_type |-> _ASCE_TYPE_REGION1, asce_end |-> ULONG_MAX,
         etype |-> _REGION1_ENTRY_EMPTY, table |-> page, parent |-> 0, removed |-> FALSE]

gmap_is_shadow(g) == g.parent # 0

\* an index that ignores the address
idx_first(gaddr, shift) == 0

Idx(gaddr, shift) == (gaddr \div Pow2(shift)) % _CRST_ENTRIES

Deref(m, ptr) == m[ptr.pg][ptr.ix]

\* the switch of gmap_table_walk, entered at the case of `atype` with the
\* table in page `table`
RECURSIVE WalkFrom(_, _, _, _, _)
WalkFrom(m, atype, table, gaddr, level) ==
    IF atype = _ASCE_TYPE_REGION1 THEN
        LET p == Ptr(table, Idx(gaddr, _REGION1_SHIFT)) IN
        IF level = 4 THEN p
        ELSE IF Deref(m, p).i THEN NULL
        ELSE WalkFrom(m, _ASCE_TYPE_REGION2, Deref(m, p).o, gaddr, level)
    ELSE IF atype = _ASCE_TYPE_REGION2 THEN
        LET p == Ptr(table, Idx(gaddr, _REGION2_SHIFT)) IN
        IF level = 3 THEN p
        ELSE IF Deref(m, p).i THEN NULL
        ELSE WalkFrom(m, _ASCE_TYPE_REGION3, Deref(m, p).o, gaddr, level)
    ELSE IF atype = _ASCE_TYPE_REGION3 THEN
        LET p == Ptr(table, Idx(gaddr, _REGION3_SHIFT)) IN
        IF level = 2 THEN p
        ELSE IF Deref(m, p).i THEN NULL
        ELSE WalkFrom(m, _ASCE_TYPE_SEGMENT, Deref(m, p).o, gaddr, level)
    ELSE
        LET p == Ptr(table, Idx(gaddr, _SEGMENT_SHIFT)) IN
        IF level = 1 THEN p
        ELSE IF Deref(m, p).i THEN NULL
        ELSE Ptr(Deref(m, p).o, Idx(gaddr, PAGE_SHIFT))

\* the walker never tests the removed flag of a shadow space
table_walk_of_removed(m, g, gaddr, level) ==
    IF level > (g.asce_type \div 4) + 1 THEN NULL
    ELSE IF g.asce_type # _ASCE_TYPE_REGION1
            /\ gaddr \div Pow2(_REGION3_SHIFT + (g.asce_type \div 4) * IdxBits) # 0
         THEN NULL
    ELSE WalkFrom(m, g.asce_type, g.table, gaddr, level)

gmap_table_walk(m, g, gaddr, level) ==
    IF gmap_is_shadow(g) /\ g.removed THEN NULL
    ELSE IF level > (g.asce_type \div 4) + 1 THEN NULL
    ELSE IF g.asce_type # _ASCE_TYPE_REGION1
            /\ gaddr \div Pow2(_REGION3_SHIFT + (g.asce_type \div 4) * IdxBits) # 0
         THEN NULL
    ELSE WalkFrom(m, g.asce_type, g.table, gaddr, level)

(* ------------------------------------------------------------------ *)
(* The forward and the reverse map                                     *)
(* ------------------------------------------------------------------ *)

VALID_GADDR_FLAG == 1
IS_GADDR_VALID(gaddr) == gaddr % 2 = VALID_GADDR_FLAG
MAKE_VALID_GADDR(gaddr) == BitOr(AlignDown(gaddr, HPAGE_SIZE), VALID_GADDR_FLAG)

\* a radix tree: index -> item, 0 (NULL) where nothing is stored
radix_tree_lookup_none(tree, index) == 0

radix_tree_lookup(tree, index) == IF index \in DOMAIN tree THEN tree[index] ELSE 0
radix_tree_delete(tree, index) ==
    [x \in DOMAIN tree |-> IF x = index THEN 0 ELSE tree[x]]

\* the part of the state the map and unmap loops work on
MapState(g2h, h2g, m) == [g2h |-> g2h, h2g |-> h2g, mem |-> m, flush |-> FALSE]

\* a faulty unlink, which deletes the reverse entry and leaves the slot
unlink_reverse_only(g, st, vmaddr) ==
    [st EXCEPT !.h2g = radix_tree_delete(st.h2g, vmaddr \div PMD_SIZE)]

__gmap_unlink_by_vmaddr(g, st, vmaddr) ==
    LET gaddr == radix_tree_lookup(st.h2g, vmaddr \div PMD_SIZE)
        h2g1 == radix_tree_delete(st.h2g, vmaddr \div PMD_SIZE)
        pmdp == IF IS_GADDR_VALID(gaddr) THEN gmap_table_walk(st.mem, g, gaddr, 1)
                ELSE NULL
    IN  IF pmdp # NULL THEN
            [st EXCEPT !.h2g = h2g1,
                       !.flush = @ \/ (Deref(st.mem, pmdp) # _SEGMENT_ENTRY_EMPTY),
                       !.mem = [@ EXCEPT ![pmdp.pg][pmdp.ix] = _SEGMENT_ENTRY_EMPTY]]
        ELSE [st EXCEPT !.h2g = h2g1]

__gmap_unmap_by_gaddr(g, st, gaddr) ==
    LET vmaddr == radix_tree_lookup(st.g2h, gaddr \div PMD_SIZE)
        st1 == [st EXCEPT !.g2h = radix_tree_delete(@, gaddr \div PMD_SIZE)]
    IN  IF vmaddr # 0 THEN __gmap_unlink_by_vmaddr(g, st1, vmaddr) ELSE st1

\* an unmap loop that removes nothing
unmap_loop_none(g, st, to, len, off) == st

\* the loop of gmap_unmap_segment, from offset off
RECURSIVE UnmapLoop(_, _, _, _, _)
UnmapLoop(g, st, to, len, off) ==
    IF off >= len THEN st
    ELSE UnmapLoop(g, __gmap_unmap_by_gaddr(g, st, Add(to, off)), to, len, off + PMD_SIZE)

\* the loop of gmap_map_segment, from offset off; radix_tree_insert fails at
\* offset failAt.  Returns the state and the offset the loop ended at.
RECURSIVE MapLoop(_, _, _, _, _, _, _)
MapLoop(g, st, from, to, len, off, failAt) ==
    IF off >= len THEN [st |-> st, off |-> off]
    ELSE LET st1 == __gmap_unmap_by_gaddr(g, st, Add(to, off)) IN
         IF off = failAt THEN [st |-> st1, off |-> off]
         ELSE MapLoop(g, [st1 EXCEPT !.g2h[Add(to, off) \div PMD_SIZE] = Add(from, off)],
                      from, to, len, off + PMD_SIZE, failAt)

\* a faulty translate, which drops the offset into the segment
translate_segment_only(g2h, gaddr) ==
    LET vmaddr == radix_tree_lookup(g2h, gaddr \div PMD_SIZE) IN
    IF vmaddr # 0 THEN vmaddr ELSE -EFAULT

__gmap_translate(g2h, gaddr) ==
    LET vmaddr == radix_tree_lookup(g2h, gaddr \div PMD_SIZE) IN
    IF vmaddr # 0 THEN BitOr(vmaddr, Low(gaddr, PMD_SIZE)) ELSE -EFAULT

(* ------------------------------------------------------------------ *)
(* Events: what a call does to a segment entry, and whom it notifies   *)
(* ------------------------------------------------------------------ *)

\* kind: "set_pmd" (a plain store), "idte_global", "idte_local", "csp" (the
\* entry is invalidated and the TLB flushed), "notify" (gmap_call_notifier)
Ev(kind, old, new, a, b) == [kind |-> kind, old |-> old, new |-> new, a |-> a, b |-> b]
EvStore(kind, old, new) == Ev(kind, old, new, 0, 0)
EvNotify(gaddr, end) == Ev("notify", _SEGMENT_ENTRY_EMPTY, _SEGMENT_ENTRY_EMPTY, gaddr, end)

\* the entry and the events so far
PmdOp(e, evs) == [e |-> e, evs |-> evs]

pmdp_notify_gmap(op, gaddr) ==
    LET new == [op.e EXCEPT !.gin = FALSE] IN
    PmdOp(new, op.evs \o <<EvStore("set_pmd", op.e, new),
                           EvNotify(gaddr, Add(gaddr, HPAGE_SIZE - 1))>>)

\* __pmdp_idte(..., IDTE_GLOBAL), __pmdp_idte(..., IDTE_LOCAL), __pmdp_csp
Invalidate(op, kind) ==
    LET new == [op.e EXCEPT !.i = TRUE] IN
    PmdOp(new, Append(op.evs, EvStore(kind, op.e, new)))

set_pmd(op, new) == PmdOp(new, Append(op.evs, EvStore("set_pmd", op.e, new)))

\* a faulty exchange, which stores the new value without the invalidation
pmdp_xchg_no_flush(fac, op, new, gaddr) ==
    set_pmd(pmdp_notify_gmap(op, AlignDown(gaddr, HPAGE_SIZE)), [new EXCEPT !.gin = FALSE])

gmap_pmdp_xchg(fac, op, new, gaddr) ==
    LET op1 == pmdp_notify_gmap(op, AlignDown(gaddr, HPAGE_SIZE))
        new1 == [new EXCEPT !.gin = FALSE]
        op2 == IF fac = "tlb_guest" THEN Invalidate(op1, "idte_global")
               ELSE IF fac = "idte" THEN Invalidate(op1, "idte_global")
               ELSE Invalidate(op1, "csp")
    IN  set_pmd(op2, new1)

(* ------------------------------------------------------------------ *)
(* __gmap_link                                                         *)
(* ------------------------------------------------------------------ *)

\* the page alloc_pages hands out
AllocPage(alloc) == CHOOSE p \in Pages \ alloc : \A q \in Pages \ alloc : p <= q

\* the tables: the pages, which of them are allocated, a return value
Tables(m, alloc, rc) == [mem |-> m, alloc |-> alloc, rc |-> rc]

\* gmap_alloc_table on the entry at ptr; allocFail: alloc_pages returns NULL
gmap_alloc_table(t, ptr, init, allocFail) ==
    IF allocFail \/ Pages \ t.alloc = {} THEN [t EXCEPT !.rc = -ENOMEM]
    ELSE LET new == AllocPage(t.alloc)
             m1 == [t.mem EXCEPT ![new] = crst_table_init(init)]
         IN  IF Deref(m1, ptr).i THEN
                 Tables([m1 EXCEPT ![ptr.pg][ptr.ix] =
                            [@ EXCEPT !.o = new, !.i = FALSE]],
                        t.alloc \cup {new}, 0)
             ELSE Tables(t.mem, t.alloc, 0)

\* the origin in the host's segment entry for vmaddr: its page table or frame
HostOrigin(vmaddr) == WORD + (vmaddr \div PMD_SIZE)

\* "Create higher level tables in the gmap page table": the pointer to the
\* segment entry of gaddr (rc = 0), or rc = -ENOMEM
RECURSIVE LinkWalk(_, _, _, _, _, _)
LinkWalk(t, asce_type, atype, table, gaddr, allocFail) ==
    IF atype = _ASCE_TYPE_SEGMENT THEN
        [t |-> t, ptr |-> Ptr(table, Idx(gaddr, _SEGMENT_SHIFT))]
    ELSE IF asce_type < atype THEN
        LinkWalk(t, asce_type, atype - 4, table, gaddr, allocFail)
    ELSE
        LET shift == _SEGMENT_SHIFT + (atype \div 4) * IdxBits
            p == Ptr(table, Idx(gaddr, shift))
            t1 == IF Deref(t.mem, p).i
                  THEN gmap_alloc_table(t, p, EmptyEntry(atype - 4), allocFail)
                  ELSE t
        IN  IF t1.rc # 0 THEN [t |-> t1, ptr |-> NULL]
            ELSE LinkWalk(t1, asce_type, atype - 4, Deref(t1.mem, p).o, gaddr, allocFail)

\* __gmap_link.  pmd: the host's segment entry for vmaddr (l: a leaf,
\* p: protected); fail: "pud_leaf" (the host maps vmaddr with a large pud),
\* "alloc" (alloc_pages fails), "preload" (radix_tree_preload fails) or "none".
\* Returns the tables, host_to_guest, the events and the return value.
__gmap_link(g, m, alloc, h2g, hpage, fac, gaddr, vmaddr, pmd, fail) ==
    LET w == LinkWalk(Tables(m, alloc, 0), g.asce_type, _ASCE_TYPE_REGION1,
                      g.table, gaddr, fail = "alloc")
        t == w.t
        out(t1, h, evs, rc) == [mem |-> t1.mem, alloc |-> t1.alloc, h2g |-> h,
                                evs |-> evs, rc |-> rc]
    IN  IF t.rc # 0 THEN out(t, h2g, <<>>, -ENOMEM)
        ELSE IF fail = "pud_leaf" THEN out(t, h2g, <<>>, -EFAULT)
        ELSE IF pmd.l /\ ~hpage THEN out(t, h2g, <<>>, -EFAULT)
        ELSE IF fail = "preload" THEN out(t, h2g, <<>>, -ENOMEM)
        ELSE LET e == Deref(t.mem, w.ptr) IN
             IF e = _SEGMENT_ENTRY_EMPTY THEN
                 IF radix_tree_lookup(h2g, vmaddr \div PMD_SIZE) # 0
                 THEN out(t, h2g, <<>>, -EEXIST)
                 ELSE LET new == IF pmd.l
                                 THEN Entry(HostOrigin(vmaddr), FALSE, pmd.p, TRUE,
                                            TRUE, FALSE, _ASCE_TYPE_SEGMENT)
                                 ELSE Entry(HostOrigin(vmaddr), FALSE, pmd.p, FALSE,
                                            FALSE, FALSE, _ASCE_TYPE_SEGMENT)
                          op == set_pmd(PmdOp(e, <<>>), new)
                      IN  out([t EXCEPT !.mem[w.ptr.pg][w.ptr.ix] = op.e],
                              [h2g EXCEPT ![vmaddr \div PMD_SIZE] = MAKE_VALID_GADDR(gaddr)],
                              op.evs, 0)
             ELSE IF e.p /\ ~pmd.p THEN
                 LET unprot == [e EXCEPT !.p = FALSE, !.uc = TRUE]
                     op == gmap_pmdp_xchg(fac, PmdOp(e, <<>>), unprot, gaddr)
                 IN  out([t EXCEPT !.mem[w.ptr.pg][w.ptr.ix] = op.e], h2g, op.evs, 0)
             ELSE out(t, h2g, <<>>, 0)

(* ------------------------------------------------------------------ *)
(* Host-side invalidation of a segment                                 *)
(* ------------------------------------------------------------------ *)

\* what an invalidation works on and leaves: host_to_guest, the pages, events
Inval(h2g, m, evs, flush) == [h2g |-> h2g, mem |-> m, evs |-> evs, flush |-> flush]

\* a lookup in place of the delete: the reverse entry stays
pmd_lookup_no_delete(g, m, h2g, vmaddr) ==
    LET gaddr == radix_tree_lookup(h2g, vmaddr \div PMD_SIZE) IN
    [h2g |-> h2g,
     gaddr |-> gaddr,
     pmdp |-> IF IS_GADDR_VALID(gaddr) THEN gmap_table_walk(m, g, gaddr, 1) ELSE NULL]

\* host_to_guest_pmd_delete: the reverse entry is deleted; the pointer to the
\* segment entry it named, or NULL
host_to_guest_pmd_delete(g, m, h2g, vmaddr) ==
    LET gaddr == radix_tree_lookup(h2g, vmaddr \div PMD_SIZE) IN
    [h2g |-> radix_tree_delete(h2g, vmaddr \div PMD_SIZE),
     gaddr |-> gaddr,
     pmdp |-> IF IS_GADDR_VALID(gaddr) THEN gmap_table_walk(m, g, gaddr, 1) ELSE NULL]

\* the body of the loops of gmap_pmdp_clear (kind "clear": purge = 0,
\* "csp": purge = 1), gmap_pmdp_idte_local ("local"), gmap_pmdp_idte_global
\* ("global"), for the one gmap of the mm
gmap_pmdp_invalidate_one(g, m, h2g, fac, vmaddr, kind) ==
    LET d == host_to_guest_pmd_delete(g, m, h2g, vmaddr) IN
    IF d.pmdp = NULL THEN Inval(d.h2g, m, <<>>, FALSE)
    ELSE LET op1 == pmdp_notify_gmap(PmdOp(Deref(m, d.pmdp), <<>>), d.gaddr)
             op2 == IF kind = "clear" THEN op1
                    ELSE IF kind = "csp" THEN Invalidate(op1, "csp")
                    ELSE IF kind = "local" THEN
                        (IF fac \in {"tlb_guest", "idte"}
                         THEN Invalidate(op1, "idte_local") ELSE op1)
                    ELSE (IF fac \in {"tlb_guest", "idte"}
                          THEN Invalidate(op1, "idte_global")
                          ELSE Invalidate(op1, "csp"))
             op3 == set_pmd(op2, _SEGMENT_ENTRY_EMPTY)
         IN  Inval(d.h2g, [m EXCEPT ![d.pmdp.pg][d.pmdp.ix] = op3.e], op3.evs, FALSE)

\* the body of the loop of gmap_unlink for the one gmap of the mm
gmap_unlink_one(g, m, h2g, vmaddr) ==
    LET st == __gmap_unlink_by_vmaddr(g, MapState(<<>>, h2g, m), vmaddr) IN
    Inval(st.h2g, st.mem, <<>>, st.flush)

(* ------------------------------------------------------------------ *)
(* Protection of a segment; dirty tracking                             *)
(* ------------------------------------------------------------------ *)

pmd_none(e) == e = _SEGMENT_ENTRY_EMPTY
pmd_leaf(e) == e.l

gmap_pmd_op_walk(g, m, hpage, gaddr) ==
    LET pmdp == gmap_table_walk(m, g, gaddr, 1) IN
    IF pmdp = NULL THEN NULL
    ELSE IF pmd_none(Deref(m, pmdp)) THEN NULL
    ELSE pmdp

\* the entry, the events and the return value
ProtOp(e, evs, rc) == [e |-> e, evs |-> evs, rc |-> rc]

\* a gmap_protect_pmd without the "Fixup needed" test: it never returns -EAGAIN
protect_pmd_no_fixup(fac, e, evs, gaddr, prot, bits) ==
    ProtOp(e, evs, IF "SHADOW" \in bits THEN -EINVAL ELSE 0)

\* prot: "NONE", "READ", "WRITE"; bits: a subset of {"MPROT", "SHADOW"}
gmap_protect_pmd(fac, e, evs, gaddr, prot, bits) ==
    IF (e.i /\ prot # "NONE") \/ (e.p /\ prot = "WRITE") THEN ProtOp(e, evs, -EAGAIN)
    ELSE
        LET op0 == PmdOp(e, evs)
            new1 == IF prot = "NONE" /\ ~e.i THEN [e EXCEPT !.i = TRUE] ELSE e
            op1 == IF prot = "NONE" /\ ~e.i THEN gmap_pmdp_xchg(fac, op0, new1, gaddr)
                   ELSE op0
            new2 == [new1 EXCEPT !.i = FALSE, !.p = TRUE]
            op2 == IF prot = "READ" /\ ~e.p THEN gmap_pmdp_xchg(fac, op1, new2, gaddr)
                   ELSE op1
            op3 == IF "MPROT" \in bits THEN set_pmd(op2, [op2.e EXCEPT !.gin = TRUE])
                   ELSE op2
        IN  ProtOp(op3.e, op3.evs, IF "SHADOW" \in bits THEN -EINVAL ELSE 0)

\* a gmap_protect_pte that reports a missing page table as -EFAULT
protect_pte_fault(e, pteAlloc, pteRc) ==
    IF e.i THEN -EAGAIN
    ELSE IF ~pteAlloc THEN -EFAULT
    ELSE pteRc

\* gmap_protect_pte; the page table and ptep_force_prot are the host's:
\* pteAlloc: pte_alloc_map_lock found the pte, pteRc: what ptep_force_prot returns
gmap_protect_pte(e, pteAlloc, pteRc) ==
    IF e.i THEN -EAGAIN
    ELSE IF ~pteAlloc THEN -ENOMEM
    ELSE pteRc

\* gmap_protect_one: the pages, the events and the return value
gmap_protect_one(g, m, hpage, fac, gaddr, prot, bits, pteAlloc, pteRc) ==
    LET pmdp == gmap_pmd_op_walk(g, m, hpage, gaddr) IN
    IF pmdp = NULL THEN [mem |-> m, evs |-> <<>>, rc |-> -EAGAIN]
    ELSE IF ~pmd_leaf(Deref(m, pmdp)) THEN
        LET rc == gmap_protect_pte(Deref(m, pmdp), pteAlloc, pteRc) IN
        [mem |-> m, evs |-> <<>>, rc |-> IF rc = 0 THEN PAGE_SIZE ELSE rc]
    ELSE
        LET r == gmap_protect_pmd(fac, Deref(m, pmdp), <<>>, gaddr, prot, bits) IN
        [mem |-> [m EXCEPT ![pmdp.pg][pmdp.ix] = r.e], evs |-> r.evs,
         rc |-> IF r.rc = 0 THEN HPAGE_SIZE ELSE r.rc]

\* a test of the dirty status that leaves the UC bit as it is
test_dirty_keep_uc(fac, e, gaddr) ==
    IF e.i THEN ProtOp(e, <<>>, 0)
    ELSE IF e.p /\ ~e.uc THEN ProtOp(e, <<>>, 0)
    ELSE LET r == gmap_protect_pmd(fac, e, <<>>, gaddr, "READ", {})
         IN  ProtOp(r.e, r.evs, 1)

\* gmap_test_and_clear_dirty_pmd: rc = 1 when the segment was dirty
gmap_test_and_clear_dirty_pmd(fac, e, gaddr) ==
    IF e.i THEN ProtOp(e, <<>>, 0)
    ELSE IF e.p /\ ~e.uc THEN ProtOp(e, <<>>, 0)
    ELSE LET op == set_pmd(PmdOp(e, <<>>), [e EXCEPT !.uc = FALSE])
             r == gmap_protect_pmd(fac, op.e, op.evs, gaddr, "READ", {})
         IN  ProtOp(r.e, r.evs, 1)

\* gmap_sync_dirty_log_pmd on a large segment: rc = 1 when the bitmap was
\* filled; the ptes of a segment that is not large are the host's (rc = -1)
gmap_sync_dirty_log_pmd(g, m, hpage, fac, gaddr) ==
    LET pmdp == gmap_pmd_op_walk(g, m, hpage, gaddr) IN
    IF pmdp = NULL THEN [mem |-> m, evs |-> <<>>, rc |-> 0]
    ELSE IF pmd_leaf(Deref(m, pmdp)) THEN
        LET r == gmap_test_and_clear_dirty_pmd(fac, Deref(m, pmdp), gaddr) IN
        [mem |-> [m EXCEPT ![pmdp.pg][pmdp.ix] = r.e], evs |-> r.evs, rc |-> r.rc]
    ELSE [mem |-> m, evs |-> <<>>, rc |-> -1]

(* ------------------------------------------------------------------ *)
(* Shadow tables: the unshadow functions, the reverse map, gmap_free    *)
(* ------------------------------------------------------------------ *)

\* the low bits of an rmap address: the level of the table it protects
_SHADOW_RMAP_MASK == 7
_SHADOW_RMAP_REGION1 == 5
_SHADOW_RMAP_REGION2 == 4
_SHADOW_RMAP_REGION3 == 3
_SHADOW_RMAP_SEGMENT == 2
_SHADOW_RMAP_PGTABLE == 1

_PAGE_INVALID == EmptyEntry(_ASCE_TYPE_SEGMENT)

\* the empty entry of a table whose entries gmap_table_walk finds at `level`
EmptyAt(level) == EmptyEntry((level - 1) * 4)

\* what a teardown does, in order: "notify" (gmap_call_notifier for
\* [a, b]), "flush" (gmap_flush_tlb), "idte" (gmap_idte_one for the entry ix
\* of the table in page pg), "clear" (the entry ix of the table in page pg is
\* emptied), "pte" (the entries of the page table in page pg are invalidated),
\* "free" (the page pg is freed)
UEv(kind, pg, ix, a, b) == [kind |-> kind, pg |-> pg, ix |-> ix, a |-> a, b |-> b]

\* the tables with an empty record of what is done to them
Logged(t) == [mem |-> t.mem, alloc |-> t.alloc, rc |-> t.rc, log |-> <<>>]

\* the step is recorded where a record is kept
Log(t, ev) == IF "log" \in DOMAIN t THEN [t EXCEPT !.log = Append(@, ev)] ELSE t

\* the page is not given back
free_table_never(t, pg) == t

\* __free_pages, page_table_free_pgste: the page is free again (and is
\* handed out initialised by the next allocation)
FreeTable(t, pg) ==
    Log([t EXCEPT !.alloc = @ \ {pg}, !.mem[pg] = crst_table_init(_SEGMENT_ENTRY_EMPTY)],
        UEv("free", pg, 0, 0, 0))

\* a __gmap_unshadow_pgt that leaves the entries of the page table valid
unshadow_pgt_skip(t, pgt) == t

__gmap_unshadow_pgt(t, pgt) ==
    Log([t EXCEPT !.mem[pgt] = [ix \in 0 .. (_PAGE_ENTRIES - 1) |-> _PAGE_INVALID]],
        UEv("pte", pgt, 0, 0, 0))

\* the entry ix of the table in page pg is emptied
ClearEntry(t, pg, ix, level) ==
    Log([t EXCEPT !.mem[pg][ix] = EmptyAt(level)], UEv("clear", pg, ix, 0, 0))

\* the loops of __gmap_unshadow_sgt (level 1), __gmap_unshadow_r3t (2),
\* __gmap_unshadow_r2t (3) and __gmap_unshadow_r1t (4) over the entries of
\* the table in page `table`, from entry i.  __gmap_unshadow_r1t tears the
\* region-second table down first, flushes and then clears the entry; the
\* other three clear the entry first and do not flush
RECURSIVE UnshadowLoop(_, _, _, _)
UnshadowLoop(t, table, level, i) ==
    IF i = _CRST_ENTRIES THEN t
    ELSE IF t.mem[table][i].o = 0 THEN UnshadowLoop(t, table, level, i + 1)
    ELSE LET child == t.mem[table][i].o
             t2 == IF level = 4
                   THEN ClearEntry(Log(UnshadowLoop(t, child, 3, 0),
                                       UEv("idte", table, i, 0, 0)),
                                   table, i, 4)
                   ELSE IF level = 1
                   THEN __gmap_unshadow_pgt(ClearEntry(t, table, i, 1), child)
                   ELSE UnshadowLoop(ClearEntry(t, table, i, level), child, level - 1, 0)
         IN  UnshadowLoop(FreeTable(t2, child), table, level, i + 1)

__gmap_unshadow_sgt(t, sgt) == UnshadowLoop(t, sgt, 1, 0)
__gmap_unshadow_r3t(t, r3t) == UnshadowLoop(t, r3t, 2, 0)

\* the table stays in its entry
unshadow_level_keep(g, t, raddr, level) == t

\* the bytes an entry of `level` maps: PAGE_SIZE (0), _SEGMENT_SIZE (1), ..
RangeOf(level) == Pow2(PAGE_SHIFT + level * IdxBits)

\* gmap_unshadow_pgt (level 1), gmap_unshadow_sgt (2), gmap_unshadow_r3t (3),
\* gmap_unshadow_r2t (4): the table is taken out of the entry at raddr
gmap_unshadow_level(g, t, raddr, level) ==
    LET e == gmap_table_walk(t.mem, g, raddr, level) IN
    IF e = NULL THEN t
    ELSE IF Deref(t.mem, e).o = 0 THEN t
    ELSE LET child == Deref(t.mem, e).o
             t0 == Log(Log(t, UEv("notify", 0, 0, raddr, raddr + RangeOf(level) - 1)),
                       UEv("idte", e.pg, e.ix, 0, 0))
             t1 == ClearEntry(t0, e.pg, e.ix, level)
             t2 == IF level = 1 THEN __gmap_unshadow_pgt(t1, child)
                   ELSE UnshadowLoop(t1, child, level - 1, 0)
         IN  FreeTable(t2, child)

gmap_unshadow_pgt(g, t, raddr) == gmap_unshadow_level(g, t, raddr, 1)
gmap_unshadow_sgt(g, t, raddr) == gmap_unshadow_level(g, t, raddr, 2)
gmap_unshadow_r3t(g, t, raddr) == gmap_unshadow_level(g, t, raddr, 3)
gmap_unshadow_r2t(g, t, raddr) == gmap_unshadow_level(g, t, raddr, 4)

\* a gmap_unshadow_page that does not call the notifier
unshadow_page_silent(g, t, raddr) ==
    LET table == gmap_table_walk(t.mem, g, raddr, 0) IN
    IF table = NULL THEN t
    ELSE IF Deref(t.mem, table).i THEN t
    ELSE Log([t EXCEPT !.mem[table.pg][table.ix] = _PAGE_INVALID],
             UEv("clear", table.pg, table.ix, 0, 0))

\* ptep_unshadow_pte invalidates the shadow pte
gmap_unshadow_page(g, t, raddr) ==
    LET table == gmap_table_walk(t.mem, g, raddr, 0) IN
    IF table = NULL THEN t
    ELSE IF Deref(t.mem, table).i THEN t
    ELSE Log(Log([t EXCEPT !.mem[table.pg][table.ix] = _PAGE_INVALID],
                 UEv("notify", 0, 0, raddr, raddr + PAGE_SIZE - 1)),
             UEv("clear", table.pg, table.ix, 0, 0))

\* gmap_unshadow: the shadow space and the tables it leaves
gmap_unshadow(g, t) ==
    IF g.removed THEN [sg |-> g, t |-> t]
    ELSE [sg |-> [g EXCEPT !.removed = TRUE],
          t |-> UnshadowLoop(Log(Log(t, UEv("notify", 0, 0, 0, ULONG_MAX)),
                                 UEv("flush", 0, 0, 0, 0)),
                             g.table, (g.asce_type \div 4) + 1, 0)]

\* the rmap store and the number of live struct gmap_rmap
Rmaps(store, live) == [store |-> store, live |-> live]

\* every record is put at the head of the list
insert_rmap_always(r, vmaddr, raddr) ==
    Rmaps([r.store EXCEPT ![vmaddr \div PAGE_SIZE] = <<raddr>> \o @], r.live)

\* a record whose raddr the list has already is neither inserted nor freed
insert_rmap_leak(r, vmaddr, raddr) ==
    LET index == vmaddr \div PAGE_SIZE IN
    IF \E k \in 1 .. Len(r.store[index]) : r.store[index][k] = raddr
    THEN r
    ELSE Rmaps([r.store EXCEPT ![index] = <<raddr>> \o @], r.live)

\* gmap_insert_rmap of a new record with rmap->raddr = raddr
gmap_insert_rmap(r, vmaddr, raddr) ==
    LET index == vmaddr \div PAGE_SIZE IN
    IF \E k \in 1 .. Len(r.store[index]) : r.store[index][k] = raddr
    THEN Rmaps(r.store, r.live - 1)
    ELSE Rmaps([r.store EXCEPT ![index] = <<raddr>> \o @], r.live)

RECURSIVE SumLen(_, _)
SumLen(store, indices) ==
    IF indices = {} THEN 0
    ELSE LET x == CHOOSE x \in indices : TRUE IN
         Len(store[x]) + SumLen(store, indices \ {x})

\* the records stay in the store
rmap_radix_tree_keep(r) == r

gmap_rmap_radix_tree_free(r) ==
    Rmaps([x \in DOMAIN r.store |-> <<>>], r.live - SumLen(r.store, DOMAIN r.store))

\* gmap_free_crst on the table in page `table`; the loop from entry i
RECURSIVE FreeCrstLoop(_, _, _, _)
FreeCrstLoop(t, table, i, free_ptes) ==
    LET is_segment == t.mem[table][0].tt = _ASCE_TYPE_SEGMENT IN
    IF i = _CRST_ENTRIES \/ (is_segment /\ ~free_ptes) THEN FreeTable(t, table)
    ELSE IF t.mem[table][i].i THEN FreeCrstLoop(t, table, i + 1, free_ptes)
    ELSE LET child == t.mem[table][i].o
             t1 == IF is_segment THEN FreeTable(t, child)
                   ELSE FreeCrstLoop(t, child, 0, free_ptes)
         IN  FreeCrstLoop(t1, table, i + 1, free_ptes)

gmap_free_crst(t, table, free_ptes) == FreeCrstLoop(t, table, 0, free_ptes)

(* ------------------------------------------------------------------ *)
(* The calls on a non-shadow guest address space                       *)
(* ------------------------------------------------------------------ *)

Offs == {0, PMD_SIZE - 1}
GSegs == 0 .. MaxGSeg
HSegs == 0 .. MaxHSeg
SegLens == {k * PMD_SIZE : k \in 1 .. MaxLenSegs}
GAddrs == {s * PMD_SIZE + off : s \in GSegs, off \in Offs}
HostPmds == [l : BOOLEAN, p : BOOLEAN]

\* the arguments of gmap_map_segment: the aligned ranges, then a from, a to
\* and a len that are not segment aligned, an empty and a wrapping range
MapCalls ==
    {<<h * PMD_SIZE, s * PMD_SIZE, len, failAt>> :
        h \in HSegs, s \in GSegs, len \in SegLens, failAt \in {None, PMD_SIZE}}
    \cup {<<PAGE_SIZE, 0, PMD_SIZE, None>>, <<0, PAGE_SIZE, PMD_SIZE, None>>,
          <<0, 0, PAGE_SIZE, None>>, <<0, 0, 0, None>>,
          <<0, WORD - PMD_SIZE, 2 * PMD_SIZE, None>>,
          <<WORD - PMD_SIZE, 0, PMD_SIZE, None>>}

\* the arguments of gmap_unmap_segment
UnmapCalls ==
    {<<s * PMD_SIZE, len>> : s \in GSegs, len \in SegLens}
    \cup {<<PAGE_SIZE, PMD_SIZE>>, <<0, PAGE_SIZE>>, <<0, 0>>,
          <<WORD - PMD_SIZE, 2 * PMD_SIZE>>}

\* the arguments of __gmap_link: an offset into the segment, a failure
LinkCalls ==
    {<<s * PMD_SIZE + c[1], h * PMD_SIZE + c[1], c[2]>> :
        s \in GSegs, h \in HSegs,
        c \in {<<PMD_SIZE - 1, "none">>, <<0, "none">>, <<0, "alloc">>,
               <<0, "pud_leaf">>, <<0, "preload">>}}

Limits == {_REGION3_SIZE - 1, _REGION2_SIZE - 1}

Ret(op, rc) == [op |-> op, rc |-> rc]
NotLinked == [g |-> None, v |-> None, pre |-> FALSE]
EvFlush == Ev("flush", _SEGMENT_ENTRY_EMPTY, _SEGMENT_ENTRY_EMPTY, 0, 0)

\* the segments of [to, to + len)
SegsOf(to, len) == {s \in SegIndices : to <= s * PMD_SIZE /\ s * PMD_SIZE < to + len}

\* the guest segments whose reverse entry a call deleted
Unlinked(h2gOld, h2gNew) ==
    {h2gOld[v] \div PMD_SIZE : v \in {x \in SegIndices : h2gOld[x] # 0 /\ h2gNew[x] = 0}}

ForgetLinked(l, segs) == [s \in SegIndices |-> IF s \in segs THEN NotLinked ELSE l[s]]

gmap_unmap_segment(to, len) ==
    IF \/ Low(to, PMD_SIZE) # 0 \/ Low(len, PMD_SIZE) # 0
       \/ len = 0 \/ Add(to, len) < to
    THEN /\ ret' = Ret("unmap", -EINVAL)
         /\ events' = <<>>
         /\ UNCHANGED <<shadowVars, lifeVars, globalVars, lockVars>>
         /\ UNCHANGED <<mem, pg_alloc, gmap, guest_to_host, host_to_guest,
                        allow_gmap_hpage_1m, facility, fwd, linked>>
    ELSE \E st \in {UnmapLoop(gmap, MapState(guest_to_host, host_to_guest, mem),
                                to, len, 0)} :
         /\ guest_to_host' = st.g2h
         /\ host_to_guest' = st.h2g
         /\ mem' = st.mem
         /\ ret' = Ret("unmap", 0)
         /\ events' = IF st.flush THEN <<EvFlush>> ELSE <<>>
         /\ fwd' = [s \in SegIndices |-> IF s \in SegsOf(to, len) THEN None ELSE fwd[s]]
         /\ linked' = ForgetLinked(linked, SegsOf(to, len) \cup Unlinked(host_to_guest, st.h2g))
         /\ UNCHANGED <<shadowVars, lifeVars, globalVars, lockVars>>
         /\ UNCHANGED <<pg_alloc, gmap, allow_gmap_hpage_1m, facility>>

\* failAt: the offset at which radix_tree_insert fails (None: it does not)
gmap_map_segment(from, to, len, failAt) ==
    IF \/ Low(from, PMD_SIZE) # 0 \/ Low(to, PMD_SIZE) # 0 \/ Low(len, PMD_SIZE) # 0
       \/ len = 0 \/ Add(from, len) < from \/ Add(to, len) < to
       \/ Sub(Add(from, len), 1) > TASK_SIZE_MAX
       \/ Sub(Add(to, len), 1) > gmap.asce_end
    THEN /\ ret' = Ret("map", -EINVAL)
         /\ events' = <<>>
         /\ UNCHANGED <<shadowVars, lifeVars, globalVars, lockVars>>
         /\ UNCHANGED <<mem, pg_alloc, gmap, guest_to_host, host_to_guest,
                        allow_gmap_hpage_1m, facility, fwd, linked>>
    ELSE \E r \in {MapLoop(gmap, MapState(guest_to_host, host_to_guest, mem),
                            from, to, len, 0, failAt)} :
         \E ok \in {r.off >= len} :
         \E st \in {IF ok THEN r.st ELSE UnmapLoop(gmap, r.st, to, len, 0)} :
         /\ guest_to_host' = st.g2h
         /\ host_to_guest' = st.h2g
         /\ mem' = st.mem
         /\ ret' = Ret("map", IF ok THEN 0 ELSE -ENOMEM)
         /\ events' = IF st.flush THEN <<EvFlush>> ELSE <<>>
         /\ fwd' = [s \in SegIndices |->
                       IF s \in SegsOf(to, len)
                       THEN (IF ok THEN from + (s * PMD_SIZE - to) ELSE None)
                       ELSE fwd[s]]
         /\ linked' = ForgetLinked(linked, SegsOf(to, len) \cup Unlinked(host_to_guest, st.h2g))
         /\ UNCHANGED <<shadowVars, lifeVars, globalVars, lockVars>>
         /\ UNCHANGED <<pg_alloc, gmap, allow_gmap_hpage_1m, facility>>

gmap_translate(gaddr) ==
    /\ ret' = Ret("translate", __gmap_translate(guest_to_host, gaddr))
    /\ events' = <<>>
    /\ UNCHANGED <<shadowVars, lifeVars, globalVars, lockVars>>
    /\ UNCHANGED <<mem, pg_alloc, gmap, guest_to_host, host_to_guest,
                   allow_gmap_hpage_1m, facility, fwd, linked>>

gmap_link(gaddr, vmaddr, pmd, fail) ==
    /\ gaddr <= gmap.asce_end
    /\ \E r \in {__gmap_link(gmap, mem, pg_alloc, host_to_guest, allow_gmap_hpage_1m,
                              facility, gaddr, vmaddr, pmd, fail)} :
       /\ mem' = r.mem
       /\ pg_alloc' = r.alloc
       /\ host_to_guest' = r.h2g
       /\ events' = r.evs
       /\ ret' = Ret("link", r.rc)
       /\ linked' = IF r.rc = 0
                    THEN [linked EXCEPT ![gaddr \div PMD_SIZE] =
                            [g |-> AlignDown(gaddr, PMD_SIZE),
                             v |-> AlignDown(vmaddr, PMD_SIZE),
                             pre |-> __gmap_translate(guest_to_host, gaddr) = vmaddr]]
                    ELSE linked
       /\ UNCHANGED <<shadowVars, lifeVars, globalVars, lockVars>>
       /\ UNCHANGED <<gmap, guest_to_host, allow_gmap_hpage_1m, facility, fwd>>

\* the host-side invalidations: gmap_unlink, gmap_pmdp_clear with purge 0 and
\* purge 1, gmap_pmdp_idte_local, gmap_pmdp_idte_global
InvalidateKinds == {"unlink", "clear", "csp", "local", "global"}

\* gmap_unlink, gmap_pmdp_invalidate, gmap_pmdp_csp, gmap_pmdp_idte_local,
\* gmap_pmdp_idte_global: the host changes its segment entry for vmaddr
gmap_host_invalidate_gmap(vmaddr, kind) ==
    \E r \in {IF kind = "unlink" THEN gmap_unlink_one(gmap, mem, host_to_guest, vmaddr)
               ELSE gmap_pmdp_invalidate_one(gmap, mem, host_to_guest, facility,
                                             vmaddr, kind)} :
    /\ mem' = r.mem
    /\ host_to_guest' = r.h2g
    /\ events' = IF r.flush THEN Append(r.evs, EvFlush) ELSE r.evs
    /\ ret' = Ret(kind, 0)
    /\ linked' = ForgetLinked(linked, Unlinked(host_to_guest, r.h2g))
    /\ UNCHANGED <<shadowVars, lockVars>>
    /\ UNCHANGED <<pg_alloc, gmap, guest_to_host, allow_gmap_hpage_1m, facility, fwd>>

\* gmap_unlink, gmap_pmdp_clear, gmap_pmdp_idte_local, gmap_pmdp_idte_global:
\* the traversal of mm->context.gmap_list in one step
gmap_host_invalidate(vmaddr, kind) ==
    /\ gmap_host_invalidate_gmap(vmaddr, kind)
    /\ UNCHANGED <<lifeVars, globalVars, lockVars>>

gmap_protect(gaddr, prot, bits, pteAlloc, pteRc) ==
    \E r \in {gmap_protect_one(gmap, mem, allow_gmap_hpage_1m, facility, gaddr, prot,
                                bits, pteAlloc, pteRc)} :
    /\ mem' = r.mem
    /\ events' = r.evs
    /\ ret' = Ret("protect", r.rc)
    /\ UNCHANGED <<shadowVars, lifeVars, globalVars, lockVars>>
    /\ UNCHANGED <<pg_alloc, gmap, guest_to_host, host_to_guest,
                   allow_gmap_hpage_1m, facility, fwd, linked>>

gmap_sync_dirty_log(gaddr) ==
    \E r \in {gmap_sync_dirty_log_pmd(gmap, mem, allow_gmap_hpage_1m, facility, gaddr)} :
    /\ mem' = r.mem
    /\ events' = r.evs
    /\ ret' = Ret("sync_dirty", r.rc)
    /\ UNCHANGED <<shadowVars, lifeVars, globalVars, lockVars>>
    /\ UNCHANGED <<pg_alloc, gmap, guest_to_host, host_to_guest,
                   allow_gmap_hpage_1m, facility, fwd, linked>>

\* the state gmap_create leaves, for an address space of the given limit
GmapCreated(limit) ==
    /\ gmap = gmap_alloc(limit, 1)
    /\ mem = [p \in Pages |-> crst_table_init(IF p = 1 THEN gmap.etype
                                               ELSE _SEGMENT_ENTRY_EMPTY)]
    /\ pg_alloc = {1}
    /\ guest_to_host = [s \in SegIndices |-> 0]
    /\ host_to_guest = [s \in SegIndices |-> 0]
    /\ ret = Ret("init", 0)
    /\ events = <<>>
    /\ fwd = [s \in SegIndices |-> None]
    /\ linked = [s \in SegIndices |-> NotLinked]

(* ------------------------------------------------------------------ *)
(* The calls on the shadow guest address space                          *)
(* ------------------------------------------------------------------ *)

\* bound: the threads that call gmap_shadow_sgt and gmap_shadow_pgt
MaxThreads == 2
Threads == 1 .. MaxThreads

\* the indices of host_to_rmap
RmapIndices == 0 .. ((MaxIndex + 1) * _PAGE_ENTRIES - 1)

Idle == [pc |-> "idle", level |-> 0, saddr |-> 0, page |-> 0, paddr |-> 0, len |-> 0, rc |-> 0,
         lost |-> FALSE]

\* the shadow space as gmap_shadow leaves it (gmap_alloc, refcount_set 2,
\* list_add to parent->children); orig_asce: its top-level table lies at
\* [orig_start, orig_end) of the parent, unless it is a real-space asce
ShadowCreated(limit, page) ==
    [gmap_alloc(limit, page) EXCEPT !.parent = 1]
    @@ [ref_count |-> 2, listed |-> TRUE, real_space |-> FALSE,
        orig_start |-> 0, orig_end |-> PAGE_SIZE]

\* no shadow space exists
NoShadow ==
    [gmap_alloc(0, 0) EXCEPT !.removed = TRUE]
    @@ [ref_count |-> 0, listed |-> FALSE, real_space |-> FALSE,
        orig_start |-> 0, orig_end |-> 0]

\* the caller of the shadow functions holds a reference
UserHolds == sg.ref_count > (IF sg.listed THEN 1 ELSE 0)

\* the rmap address of the entry that gmap_table_walk finds at `level`
RmapAddr(saddr, level) == AlignDown(saddr, Pow2(PAGE_SHIFT + level * IdxBits)) + level + 1

\* gmap_free of the shadow space, up to the gmap_put of its parent: the
\* space, the tables and the rmaps it leaves
gmap_free(g, t, r) ==
    [sg |-> [g EXCEPT !.ref_count = 0],
     t |-> gmap_free_crst(t, g.table, gmap_is_shadow(g)),
     r |-> gmap_rmap_radix_tree_free(r)]

\* gmap_put of the shadow space
gmap_put(g, t, r) ==
    IF g.ref_count = 1 THEN gmap_free(g, t, r)
    ELSE [sg |-> [g EXCEPT !.ref_count = @ - 1], t |-> t, r |-> r]

\* gmap_put of the gmap, and gmap_free at its last reference: the count, the
\* tables, guest_to_host and host_to_guest it leaves
gmap_put_gmap(ref, t, g2h, h2g) ==
    IF ref > 1 THEN [ref |-> ref - 1, t |-> t, g2h |-> g2h, h2g |-> h2g]
    ELSE [ref |-> 0,
          t |-> gmap_free_crst(t, gmap.table, gmap_is_shadow(gmap)),
          g2h |-> [x \in DOMAIN g2h |-> 0],
          h2g |-> [x \in DOMAIN h2g |-> 0]]

\* the reference to the parent is released by every gmap_put of the shadow
put_parent_always(old, new, ref, t, g2h, h2g) ==
    gmap_put_gmap(ref, t, g2h, h2g)

\* the end of gmap_free of the shadow space, "Release reference to the
\* parent", where the step from the shadow space `old` to `new` has freed it
gmap_put_parent(old, new, ref, t, g2h, h2g) ==
    IF old.ref_count > 0 /\ new.ref_count = 0
    THEN gmap_put_gmap(ref, t, g2h, h2g)
    ELSE [ref |-> ref, t |-> t, g2h |-> g2h, h2g |-> h2g]

\* the entry is never tested for a table in it
shadow_slot_check_no_established(m, table) ==
    IF table = NULL THEN -EAGAIN
    ELSE IF Deref(m, table).o # 0 THEN -EAGAIN
    ELSE 1

\* the entry is never tested for a table that is being set up
shadow_slot_check_no_race(m, table) ==
    IF table = NULL THEN -EAGAIN
    ELSE IF ~Deref(m, table).i THEN 0
    ELSE 1

\* what gmap_shadow_r2t, _r3t, _sgt and _pgt find in the entry `table` with
\* the lock: -EAGAIN (the shadow is gone), 0 ("Already established"),
\* -EAGAIN ("Race with shadow"), or 1: the entry takes the new table
shadow_slot_check(m, table) ==
    IF table = NULL THEN -EAGAIN
    ELSE IF ~Deref(m, table).i THEN 0
    ELSE IF Deref(m, table).o # 0 THEN -EAGAIN
    ELSE 1

\* the table of a fake call is installed as the table of any other call
protect_fake_too(fake) == FALSE

\* "nothing to protect for fake tables": the entry is made valid at once
\* and the call returns 0, with no call of gmap_protect_rmap
NothingToProtect(fake) == fake

\* gmap_shadow_sgt (level 2) and gmap_shadow_pgt (level 1; gmap_shadow_r3t is
\* level 3, gmap_shadow_r2t level 4), up to the first spin_unlock: the table
\* is allocated and installed in the entry, invalid unless fake.  The threads
\* are the calls in flight: a call runs in the first idle one
\* History: `lost`, the page of a call in flight has been freed and is
\* allocated again, for the table of this call
shadow_install(t, level, saddr, paddr, len, fake, allocFail) ==
    /\ thr[t].pc = "idle"
    /\ \A u \in 1 .. (t - 1) : thr[u].pc # "idle"
    /\ UserHolds
    /\ LET page == AllocPage(pg_alloc)
           table == gmap_table_walk(mem, sg, saddr, level)
           rc == IF allocFail \/ Pages \ pg_alloc = {} THEN -ENOMEM
                 ELSE shadow_slot_check(mem, table)
       IN
       IF rc # 1
       THEN /\ ret' = Ret("shadow_found", rc)
            /\ UNCHANGED <<mem, pg_alloc, thr>>
       ELSE /\ mem' = [mem EXCEPT
                          ![page] = crst_table_init(IF level = 1 THEN _PAGE_INVALID
                                                    ELSE EmptyAt(level - 1)),
                          ![table.pg][table.ix] =
                              Entry(page, ~NothingToProtect(fake), FALSE, FALSE, FALSE, FALSE, (level - 1) * 4)]
            /\ pg_alloc' = pg_alloc \cup {page}
            /\ thr' = [u \in Threads |->
                         IF u = t /\ ~NothingToProtect(fake)
                         THEN [pc |-> "protect", level |-> level, saddr |-> saddr,
                               page |-> page, paddr |-> paddr, len |-> len, rc |-> 0,
                               lost |-> FALSE]
                         ELSE [thr[u] EXCEPT !.lost = @ \/ (thr[u].pc # "idle"
                                                            /\ thr[u].page = page)]]
            /\ ret' = IF NothingToProtect(fake) THEN Ret("shadow", 0) ELSE ret
    /\ events' = <<>>
    /\ UNCHANGED <<lifeVars, globalVars, lockVars>>
    /\ UNCHANGED <<gmap, guest_to_host, host_to_guest, allow_gmap_hpage_1m, facility,
                   fwd, linked, sg, host_to_rmap, rmap_live>>

\* one pass of the loop of gmap_protect_rmap, called without the lock.
\* fail: "nomem" (kzalloc or radix_tree_preload fails), "prot" (no pte, or
\* ptep_force_prot fails, and the fixup succeeds), "fixup" (it fails), "none"
shadow_protect(t, fail) ==
    /\ thr[t].pc = "protect"
    /\ \E c \in {thr[t]} :
       \E vmaddr \in {__gmap_translate(guest_to_host, c.paddr)} :
       \E segp \in {gmap_table_walk(mem, gmap, c.paddr, 1)} :
       \E ptep \in {segp # NULL /\ ~Deref(mem, segp).i /\ fail # "prot"} :
       LET done(rc) == [thr EXCEPT ![t].pc = "finish", ![t].rc = rc] IN
       IF vmaddr < 0 \/ fail = "nomem" \/ (~ptep /\ fail = "fixup")
       THEN /\ thr' = done(IF vmaddr < 0 THEN vmaddr
                            ELSE IF fail = "nomem" THEN -ENOMEM ELSE -EFAULT)
            /\ UNCHANGED <<mem, pg_alloc, host_to_guest, host_to_rmap, rmap_live>>
       ELSE IF ptep
       THEN \E r \in {gmap_insert_rmap(Rmaps(host_to_rmap, rmap_live + 1), vmaddr,
                                       RmapAddr(c.saddr, c.level))} :
            /\ host_to_rmap' = r.store
            /\ rmap_live' = r.live
            /\ thr' = IF c.len = PAGE_SIZE THEN done(0)
                      ELSE [thr EXCEPT ![t].paddr = @ + PAGE_SIZE, ![t].len = @ - PAGE_SIZE]
            /\ UNCHANGED <<mem, pg_alloc, host_to_guest>>
       ELSE \E l \in {__gmap_link(gmap, mem, pg_alloc, host_to_guest, allow_gmap_hpage_1m,
                                  facility, c.paddr, vmaddr, [l |-> FALSE, p |-> FALSE],
                                  "none")} :
            /\ mem' = l.mem
            /\ pg_alloc' = l.alloc
            /\ host_to_guest' = l.h2g
            /\ thr' = IF l.rc = 0 THEN thr ELSE done(l.rc)
            /\ UNCHANGED <<host_to_rmap, rmap_live>>
    /\ events' = <<>>
    /\ UNCHANGED <<lifeVars, globalVars, lockVars>>
    /\ UNCHANGED <<gmap, guest_to_host, allow_gmap_hpage_1m, facility, fwd, linked, sg, ret>>

\* the end of gmap_shadow_sgt and gmap_shadow_pgt, with the lock again: the
\* entry is made valid, or the table is unshadowed
shadow_finish(t) ==
    /\ thr[t].pc = "finish"
    /\ \E c \in {thr[t]} :
       \E table \in {gmap_table_walk(mem, sg, c.saddr, c.level)} :
       \E mine \in {table # NULL /\ Deref(mem, table).o = c.page} :
       /\ IF c.rc # 0
          THEN \E u \in {gmap_unshadow_level(sg, Tables(mem, pg_alloc, 0),
                                             RmapAddr(c.saddr, c.level), c.level)} :
               /\ mem' = u.mem
               /\ pg_alloc' = u.alloc
          ELSE /\ mem' = IF mine THEN [mem EXCEPT ![table.pg][table.ix].i = FALSE] ELSE mem
               /\ pg_alloc' = pg_alloc
       /\ ret' = Ret("shadow", IF c.rc = 0 /\ ~mine THEN -EAGAIN ELSE c.rc)
    /\ thr' = [thr EXCEPT ![t] = Idle]
    /\ events' = <<>>
    /\ UNCHANGED <<lifeVars, globalVars, lockVars>>
    /\ UNCHANGED <<gmap, guest_to_host, host_to_guest, allow_gmap_hpage_1m, facility,
                   fwd, linked, sg, host_to_rmap, rmap_live>>

\* gmap_shadow_page of the parent's page at paddr to saddr.  ptep_shadow_pte
\* returns 0 for a shadow pte that is valid, else it fills the shadow pte and
\* returns 1; where the parent has no pte for paddr the fixup links it.
\* fail: "nomem" (kzalloc or radix_tree_preload fails), "fixup" (the parent's
\* pte cannot be shadowed and gmap_pte_op_fixup fails), "none"
gmap_shadow_page(saddr, paddr, fail) ==
    /\ UserHolds
    /\ \E vmaddr \in {__gmap_translate(guest_to_host, paddr)} :
       \E segp \in {gmap_table_walk(mem, gmap, paddr, 1)} :
       \E sptep \in {segp # NULL /\ ~Deref(mem, segp).i} :
       \E l \in {IF sptep \/ vmaddr < 0 \/ fail # "none"
                 THEN [mem |-> mem, alloc |-> pg_alloc, h2g |-> host_to_guest, rc |-> 0]
                 ELSE __gmap_link(gmap, mem, pg_alloc, host_to_guest, allow_gmap_hpage_1m,
                                  facility, paddr, vmaddr, [l |-> FALSE, p |-> FALSE],
                                  "none")} :
       \E tptep \in {gmap_table_walk(l.mem, sg, saddr, 0)} :
       LET same(rc) == /\ ret' = Ret("shadow_page", rc)
                       /\ UNCHANGED <<mem, pg_alloc, host_to_guest, host_to_rmap, rmap_live>>
           fixed(rc) == /\ ret' = Ret("shadow_page", rc)
                        /\ mem' = l.mem
                        /\ pg_alloc' = l.alloc
                        /\ host_to_guest' = l.h2g
                        /\ UNCHANGED <<host_to_rmap, rmap_live>>
       IN
       IF fail = "nomem" THEN same(-ENOMEM)
       ELSE IF vmaddr < 0 THEN same(vmaddr)
       ELSE IF ~sptep /\ fail = "fixup" THEN same(-EFAULT)
       ELSE IF l.rc # 0 THEN fixed(l.rc)
       ELSE IF tptep = NULL THEN fixed(-EAGAIN)
       ELSE IF ~Deref(l.mem, tptep).i THEN fixed(0)
       ELSE IF fail = "fixup" THEN same(-EFAULT)
       ELSE \E r \in {gmap_insert_rmap(Rmaps(host_to_rmap, rmap_live + 1), vmaddr,
                                       AlignDown(saddr, PAGE_SIZE) + _SHADOW_RMAP_PGTABLE)} :
            /\ ret' = Ret("shadow_page", 0)
            /\ mem' = [l.mem EXCEPT ![tptep.pg][tptep.ix] =
                          Entry(WORD + (vmaddr \div PAGE_SIZE), FALSE, FALSE, FALSE,
                                FALSE, FALSE, _ASCE_TYPE_SEGMENT)]
            /\ pg_alloc' = l.alloc
            /\ host_to_guest' = l.h2g
            /\ host_to_rmap' = r.store
            /\ rmap_live' = r.live
    /\ events' = <<>>
    /\ UNCHANGED <<lifeVars, globalVars, lockVars>>
    /\ UNCHANGED <<gmap, guest_to_host, allow_gmap_hpage_1m, facility, fwd, linked, sg, thr>>

\* the loop of gmap_shadow_notify over the rmap list `head`, from record k
RECURSIVE NotifyLoop(_, _, _, _)
NotifyLoop(g, t, head, k) ==
    IF k > Len(head) THEN t
    ELSE LET bits == head[k] % (_SHADOW_RMAP_MASK + 1)
             raddr == head[k] - bits
             t1 == IF bits = _SHADOW_RMAP_REGION1 THEN gmap_unshadow_r2t(g, t, raddr)
                   ELSE IF bits = _SHADOW_RMAP_REGION2 THEN gmap_unshadow_r3t(g, t, raddr)
                   ELSE IF bits = _SHADOW_RMAP_REGION3 THEN gmap_unshadow_sgt(g, t, raddr)
                   ELSE IF bits = _SHADOW_RMAP_SEGMENT THEN gmap_unshadow_pgt(g, t, raddr)
                   ELSE IF bits = _SHADOW_RMAP_PGTABLE THEN gmap_unshadow_page(g, t, raddr)
                   ELSE t
         IN  NotifyLoop(g, t1, head, k + 1)

\* a notification for the top-level table that puts the reference of the
\* list and leaves the shadow space on the list
shadow_notify_no_list_del(g, t, r, vmaddr, gaddr) ==
    IF g.removed THEN [sg |-> g, t |-> t, r |-> r]
    ELSE LET u == gmap_unshadow(g, t) IN gmap_put(u.sg, u.t, r)

\* gmap_shadow_notify: the shadow space, the tables and the rmaps it leaves
gmap_shadow_notify(g, t, r, vmaddr, gaddr) ==
    IF g.removed THEN [sg |-> g, t |-> t, r |-> r]
    ELSE IF ~g.real_space /\ gaddr >= g.orig_start /\ gaddr < g.orig_end THEN
        LET u == gmap_unshadow(g, t) IN
        gmap_put([u.sg EXCEPT !.listed = FALSE], u.t, r)
    ELSE
        LET index == vmaddr \div PAGE_SIZE
            head == r.store[index]
        IN  [sg |-> g,
             t |-> NotifyLoop(g, t, head, 1),
             r |-> Rmaps([r.store EXCEPT ![index] = <<>>], r.live - Len(head))]

\* the body of the loop of ptep_notify for the pte of vmaddr, on the gmap;
\* bits: a subset of {"VSIE", "IN"}; rc: the number of struct gmap_rmap freed
ptep_notify_gmap(vmaddr, bits) ==
    /\ \E gaddr \in {radix_tree_lookup(host_to_guest, vmaddr \div PMD_SIZE)
                         + AlignDown(vmaddr % PMD_SIZE, PAGE_SIZE)} :
       IF IS_GADDR_VALID(gaddr) /\ sg.listed /\ "VSIE" \in bits
       THEN \E n \in {gmap_shadow_notify(sg, Tables(mem, pg_alloc, 0),
                                         Rmaps(host_to_rmap, rmap_live), vmaddr, gaddr)} :
            \E p \in {gmap_put_parent(sg, n.sg, gmap_ref_count, n.t,
                                      guest_to_host, host_to_guest)} :
            /\ sg' = n.sg
            /\ mem' = p.t.mem
            /\ pg_alloc' = p.t.alloc
            /\ host_to_rmap' = n.r.store
            /\ rmap_live' = n.r.live
            /\ gmap_ref_count' = p.ref
            /\ guest_to_host' = p.g2h
            /\ host_to_guest' = p.h2g
       ELSE UNCHANGED <<sg, mem, pg_alloc, host_to_rmap, rmap_live, gmap_ref_count,
                        guest_to_host, host_to_guest>>
    /\ ret' = Ret("ptep_notify", rmap_live - rmap_live')
    /\ events' = <<>>
    /\ UNCHANGED <<gmap, allow_gmap_hpage_1m, facility, fwd, linked, thr>>

\* ptep_notify, the traversal of mm->context.gmap_list in one step
ptep_notify(vmaddr, bits) ==
    /\ ptep_notify_gmap(vmaddr, bits)
    /\ UNCHANGED <<mm, rm, rd>>
    /\ UNCHANGED <<globalVars, lockVars>>

\* a call of gmap_unshadow with sg->guest_table_lock
gmap_unshadow_call ==
    /\ UserHolds
    /\ \E u \in {gmap_unshadow(sg, Tables(mem, pg_alloc, 0))} :
       /\ sg' = u.sg
       /\ mem' = u.t.mem
       /\ pg_alloc' = u.t.alloc
    /\ events' = <<>>
    /\ UNCHANGED <<lifeVars, globalVars, lockVars>>
    /\ UNCHANGED <<gmap, guest_to_host, host_to_guest, allow_gmap_hpage_1m, facility,
                   fwd, linked, host_to_rmap, rmap_live, thr, ret>>

\* the caller of the shadow functions drops its reference; rc: the number of
\* struct gmap_rmap that gmap_free has freed
gmap_put_call ==
    /\ UserHolds
    /\ \A t \in Threads : thr[t].pc = "idle"
    /\ \E n \in {gmap_put(sg, Tables(mem, pg_alloc, 0), Rmaps(host_to_rmap, rmap_live))} :
       \E p \in {gmap_put_parent(sg, n.sg, gmap_ref_count, n.t,
                                 guest_to_host, host_to_guest)} :
       /\ sg' = n.sg
       /\ mem' = p.t.mem
       /\ pg_alloc' = p.t.alloc
       /\ host_to_rmap' = n.r.store
       /\ rmap_live' = n.r.live
       /\ gmap_ref_count' = p.ref
       /\ guest_to_host' = p.g2h
       /\ host_to_guest' = p.h2g
       /\ ret' = Ret("gmap_put", rmap_live - n.r.live)
    /\ events' = <<>>
    /\ UNCHANGED <<gmap, allow_gmap_hpage_1m, facility, fwd, linked, thr, mm, rm, rd>>
    /\ UNCHANGED <<globalVars, lockVars>>

\* no shadow space and no call on one
NoShadowCreated ==
    /\ sg = NoShadow
    /\ host_to_rmap = [x \in RmapIndices |-> <<>>]
    /\ rmap_live = 0
    /\ thr = [t \in Threads |-> Idle]

(* ------------------------------------------------------------------ *)
(* gmap_create, gmap_remove and the traversals of mm->context.gmap_list *)
(* ------------------------------------------------------------------ *)

\* bound: the threads that traverse mm->context.gmap_list
MaxReaders == 2
Readers == 1 .. MaxReaders

\* gmap->asce: the origin of the table and its type
Asce(g) == g.table * (_ASCE_TYPE_REGION1 + 4) + g.asce_type

\* the other gmaps of the mm: gmap_create makes them, gmap_remove takes them
\* off the list and frees them after the grace period
MaxSiblings == 2
Siblings == 1 .. MaxSiblings

NoSibling == [pc |-> "none", g |-> gmap_alloc(0, 0), waiting |-> {}]
NoSiblings == siblings = [k \in Siblings |-> NoSibling]

\* list_first_entry(...)->asce: the asce of the gmap whose root table is `table`
AsceOf(table) ==
    IF \E k \in Siblings : siblings[k].pc # "none" /\ siblings[k].g.table = table
    THEN Asce(siblings[CHOOSE k \in Siblings :
                           siblings[k].pc # "none" /\ siblings[k].g.table = table].g)
    ELSE Asce(gmap)

\* a gmap_asce that is the asce of the first gmap of every list that has one
gmap_asce_first(list) ==
    IF list = <<>> THEN 0 ELSE AsceOf(list[1])

\* mm->context.gmap_asce for the list gmap_remove leaves
GmapAsce(list) ==
    IF list = <<>> THEN 0
    ELSE IF Len(list) = 1 THEN AsceOf(list[1])
    ELSE 0 - 1

\* gmap_create after gmap_alloc: the gmap is on the list of the mm and has
\* `refs` references, no gmap_remove and no traversal runs
GmapListed(refs) ==
    /\ mm = [gmap_list |-> <<gmap.table>>, gmap_asce |-> GmapAsce(<<gmap.table>>)]
    /\ gmap_ref_count = refs
    /\ rm = [pc |-> "idle", waiting |-> {}, waited |-> FALSE]
    /\ rd = [r \in Readers |-> [pc |-> "idle", before |-> FALSE]]

\* the caller of gmap_create has not called gmap_remove
OwnerHolds == rm.pc = "idle" /\ gmap_ref_count > 0

\* no grace period: gmap_remove waits for no traversal
no_grace_period(in_cs) == {}

\* synchronize_rcu: the read-side critical sections it waits for are those
\* that have begun before it, in_cs
synchronize_rcu(in_cs) == in_cs

\* gmap_remove, "Remove all shadow gmaps linked to this gmap"
gmap_remove_children ==
    /\ OwnerHolds
    /\ IF sg.listed
       THEN \E n \in {gmap_put([sg EXCEPT !.listed = FALSE], Tables(mem, pg_alloc, 0),
                               Rmaps(host_to_rmap, rmap_live))} :
            \E p \in {gmap_put_parent(sg, n.sg, gmap_ref_count, n.t,
                                      guest_to_host, host_to_guest)} :
            /\ sg' = n.sg
            /\ mem' = p.t.mem
            /\ pg_alloc' = p.t.alloc
            /\ host_to_rmap' = n.r.store
            /\ rmap_live' = n.r.live
            /\ gmap_ref_count' = p.ref
            /\ guest_to_host' = p.g2h
            /\ host_to_guest' = p.h2g
       ELSE UNCHANGED <<sg, mem, pg_alloc, host_to_rmap, rmap_live, gmap_ref_count,
                        guest_to_host, host_to_guest>>
    /\ rm' = [rm EXCEPT !.pc = "list_del"]
    /\ events' = <<>>
    /\ UNCHANGED <<gmap, allow_gmap_hpage_1m, facility, ret, fwd, linked, thr, mm, rd>>
    /\ UNCHANGED <<globalVars, lockVars>>

\* gmap_remove, "Remove gmap from the pre-mm list": list_del_rcu with
\* mm->context.lock.  History: the traversals that run at this moment
gmap_remove_list_del ==
    /\ rm.pc = "list_del"
    /\ LET list == SelectSeq(mm.gmap_list, LAMBDA g : g # gmap.table) IN
       mm' = [gmap_list |-> list, gmap_asce |-> GmapAsce(list)]
    /\ rd' = [r \in Readers |-> [rd[r] EXCEPT !.before = rd[r].pc # "idle"]]
    /\ rm' = [rm EXCEPT !.pc = "sync"]
    /\ UNCHANGED <<mapVars, shadowVars, gmap_ref_count>>
    /\ UNCHANGED <<globalVars, lockVars>>

\* gmap_remove calls synchronize_rcu
gmap_remove_synchronize ==
    /\ rm.pc = "sync"
    /\ LET in_cs == {r \in Readers : rd[r].pc # "idle"} IN
       rm' = [pc |-> "wait", waiting |-> synchronize_rcu(in_cs), waited |-> in_cs # {}]
    /\ UNCHANGED <<mapVars, shadowVars, mm, gmap_ref_count, rd>>
    /\ UNCHANGED <<globalVars, lockVars>>

\* synchronize_rcu returns; gmap_remove, "Put reference"
gmap_remove_put ==
    /\ rm.pc = "wait"
    /\ rm.waiting = {}
    /\ \E p \in {gmap_put_gmap(gmap_ref_count, Tables(mem, pg_alloc, 0),
                               guest_to_host, host_to_guest)} :
       /\ gmap_ref_count' = p.ref
       /\ mem' = p.t.mem
       /\ pg_alloc' = p.t.alloc
       /\ guest_to_host' = p.g2h
       /\ host_to_guest' = p.h2g
    /\ rm' = [rm EXCEPT !.pc = "done"]
    /\ events' = <<>>
    /\ UNCHANGED <<gmap, allow_gmap_hpage_1m, facility, ret, fwd, linked, shadowVars, mm, rd>>
    /\ UNCHANGED <<globalVars, lockVars>>

\* a traversal begins: rcu_read_lock
rcu_read_lock(r) ==
    /\ rd[r].pc = "idle"
    /\ rd' = [rd EXCEPT ![r] = [pc |-> "head", before |-> FALSE]]
    /\ UNCHANGED <<mapVars, shadowVars, mm, gmap_ref_count, rm>>
    /\ UNCHANGED <<globalVars, lockVars>>

\* the traversal is over: rcu_read_unlock
RcuReadUnlock(r) ==
    /\ rd' = [rd EXCEPT ![r] = [pc |-> "idle", before |-> FALSE]]
    /\ rm' = [rm EXCEPT !.waiting = @ \ {r}]

\* list_for_each_entry_rcu reads the list: the traversal has the gmap, or
\* it is over
list_for_each_entry_rcu(r) ==
    /\ rd[r].pc = "head"
    /\ IF \E k \in 1 .. Len(mm.gmap_list) : mm.gmap_list[k] = gmap.table
       THEN /\ rd' = [rd EXCEPT ![r].pc = "visit"]
            /\ UNCHANGED rm
       ELSE RcuReadUnlock(r)
    /\ UNCHANGED <<mapVars, shadowVars, mm, gmap_ref_count>>
    /\ UNCHANGED <<globalVars, lockVars>>

\* the body of the loop on the gmap, of ptep_notify for vmaddr (kind
\* "notify") or of gmap_unlink, gmap_pmdp_clear, gmap_pmdp_idte_local,
\* gmap_pmdp_idte_global; the list has no further entry
traverse_gmap(r, vmaddr, kind) ==
    /\ rd[r].pc = "visit"
    /\ IF kind = "notify"
       THEN ptep_notify_gmap(vmaddr, {"VSIE"})
       ELSE gmap_host_invalidate_gmap(vmaddr, kind) /\ UNCHANGED gmap_ref_count
    /\ RcuReadUnlock(r)
    /\ UNCHANGED mm
    /\ UNCHANGED <<globalVars, lockVars>>

(* ------------------------------------------------------------------ *)
(* gmap_notifier_list: registration and gmap_call_notifier             *)
(* ------------------------------------------------------------------ *)

MaxNotifiers == 2
Notifiers == 1 .. MaxNotifiers
MaxCallers == 2
Callers == 1 .. MaxCallers

\* &gmap_notifier_list, the head of the list; the nodes are the head and
\* nb->list of every struct gmap_notifier
HEAD == 0
ListNodes == {HEAD} \cup Notifiers
LIST_POISON2 == MaxNotifiers + 1

\* LIST_HEAD(gmap_notifier_list), no notifier block registered, no call
NoNotifiers ==
    /\ gmap_notifier_list =
          [next |-> [n \in ListNodes |-> IF n = HEAD THEN HEAD ELSE LIST_POISON2],
           prev |-> [n \in ListNodes |-> IF n = HEAD THEN HEAD ELSE LIST_POISON2]]
    /\ nbs = [n \in Notifiers |-> [pc |-> "unregistered", waiting |-> {}, waited |-> FALSE]]
    /\ disp = [d \in Callers |-> [pc |-> "idle", cur |-> HEAD, calls |-> <<>>, stable |-> {}]]
    /\ reg_order = <<>>

\* an insertion at the tail of the list
list_add_tail_rcu(l, new) ==
    LET last == l.prev[HEAD] IN
    [next |-> [l.next EXCEPT ![new] = HEAD, ![last] = new],
     prev |-> [l.prev EXCEPT ![new] = last, ![HEAD] = new]]

\* list_add_rcu(new, head): the insertion after the head
list_add_rcu(l, new) ==
    LET first == l.next[HEAD] IN
    [next |-> [l.next EXCEPT ![new] = first, ![HEAD] = new],
     prev |-> [l.prev EXCEPT ![new] = HEAD, ![first] = new]]

\* list_del_rcu(entry): the entry keeps its next pointer
list_del_rcu(l, entry) ==
    LET p == l.prev[entry]
        x == l.next[entry]
    IN  [next |-> [l.next EXCEPT ![p] = x],
         prev |-> [l.prev EXCEPT ![x] = p, ![entry] = LIST_POISON2]]

gmap_register_pte_notifier(n) ==
    /\ nbs[n].pc = "unregistered"
    /\ gmap_notifier_list' = list_add_rcu(gmap_notifier_list, n)
    /\ nbs' = [nbs EXCEPT ![n].pc = "registered"]
    /\ reg_order' = Append(reg_order, n)
    /\ UNCHANGED <<mapVars, shadowVars, lockVars, lifeVars, siblings, disp>>

\* gmap_unregister_pte_notifier: list_del_rcu with gmap_notifier_lock
gmap_unregister_list_del(n) ==
    /\ nbs[n].pc = "registered"
    /\ gmap_notifier_list' = list_del_rcu(gmap_notifier_list, n)
    /\ nbs' = [nbs EXCEPT ![n].pc = "sync"]
    /\ reg_order' = SelectSeq(reg_order, LAMBDA x : x # n)
    /\ disp' = [d \in Callers |-> [disp[d] EXCEPT !.stable = @ \ {n}]]
    /\ UNCHANGED <<mapVars, shadowVars, lockVars, lifeVars, siblings>>

\* gmap_unregister_pte_notifier calls synchronize_rcu
gmap_unregister_synchronize(n) ==
    /\ nbs[n].pc = "sync"
    /\ LET in_cs == {d \in Callers : disp[d].pc # "idle"} IN
       nbs' = [nbs EXCEPT ![n] = [pc |-> "wait", waiting |-> synchronize_rcu(in_cs),
                                  waited |-> in_cs # {}]]
    /\ UNCHANGED <<mapVars, shadowVars, lockVars, lifeVars, siblings, gmap_notifier_list, disp,
                   reg_order>>

\* synchronize_rcu and gmap_unregister_pte_notifier return
gmap_unregister_return(n) ==
    /\ nbs[n].pc = "wait"
    /\ nbs[n].waiting = {}
    /\ nbs' = [nbs EXCEPT ![n].pc = "unregistered"]
    /\ UNCHANGED <<mapVars, shadowVars, lockVars, lifeVars, siblings, gmap_notifier_list, disp,
                   reg_order>>

\* the caller of gmap_call_notifier enters its read-side critical section
\* (ptep_notify: rcu_read_lock)
notifier_rcu_read_lock(d) ==
    /\ disp[d].pc = "idle"
    /\ disp' = [disp EXCEPT ![d].pc = "locked"]
    /\ UNCHANGED <<mapVars, shadowVars, lockVars, lifeVars, siblings, gmap_notifier_list, nbs,
                   reg_order>>

\* gmap_call_notifier: list_for_each_entry reads the first entry.  History:
\* the notifier blocks that are registered now and stay so
gmap_call_notifier(d) ==
    /\ disp[d].pc = "locked"
    /\ disp' = [disp EXCEPT ![d] =
                   [pc |-> "walk", cur |-> gmap_notifier_list.next[HEAD], calls |-> <<>>,
                    stable |-> {reg_order[i] : i \in 1 .. Len(reg_order)}]]
    /\ UNCHANGED <<mapVars, shadowVars, lockVars, lifeVars, siblings, gmap_notifier_list, nbs,
                   reg_order>>

\* list_for_each_entry: the loop ends at the head, else nb->notifier_call
\* is called
notifier_call(d) ==
    /\ disp[d].pc = "walk"
    /\ disp' = IF disp[d].cur = HEAD THEN [disp EXCEPT ![d].pc = "called"]
               ELSE [disp EXCEPT ![d].pc = "callback",
                                 ![d].calls = Append(@, disp[d].cur)]
    /\ UNCHANGED <<mapVars, shadowVars, lockVars, lifeVars, siblings, gmap_notifier_list, nbs,
                   reg_order>>

\* nb->notifier_call returns; list_for_each_entry reads nb->list.next
notifier_call_return(d) ==
    /\ disp[d].pc = "callback"
    /\ disp' = [disp EXCEPT ![d].pc = "walk",
                            ![d].cur = gmap_notifier_list.next[disp[d].cur]]
    /\ UNCHANGED <<mapVars, shadowVars, lockVars, lifeVars, siblings, gmap_notifier_list, nbs,
                   reg_order>>

\* the caller of gmap_call_notifier leaves its read-side critical section
notifier_rcu_read_unlock(d) ==
    /\ disp[d].pc = "called"
    /\ disp' = [disp EXCEPT ![d] = [pc |-> "idle", cur |-> HEAD, calls |-> <<>>,
                                    stable |-> {}]]
    /\ nbs' = [n \in Notifiers |-> [nbs[n] EXCEPT !.waiting = @ \ {d}]]
    /\ UNCHANGED <<mapVars, shadowVars, lockVars, lifeVars, siblings, gmap_notifier_list, reg_order>>

\* gmap_create(mm, limit) for the struct gmap k; allocFail: gmap_alloc
\* returns NULL.  The return value is the root table, 0 for NULL
gmap_create(k, limit, allocFail) ==
    /\ siblings[k].pc = "none"
    /\ IF allocFail \/ Pages \ pg_alloc = {}
       THEN /\ ret' = Ret("create", 0)
            /\ UNCHANGED <<mem, pg_alloc, mm, siblings>>
       ELSE \E g \in {gmap_alloc(limit, AllocPage(pg_alloc))} :
            \E list \in {<<g.table>> \o mm.gmap_list} :
            /\ mem' = [mem EXCEPT ![g.table] = crst_table_init(g.etype)]
            /\ pg_alloc' = pg_alloc \cup {g.table}
            /\ mm' = [gmap_list |-> list,
                      gmap_asce |-> IF Len(list) = 1 THEN Asce(g) ELSE 0 - 1]
            /\ siblings' = [siblings EXCEPT ![k] =
                               [pc |-> "listed", g |-> g, waiting |-> {}]]
            /\ ret' = Ret("create", g.table)
    /\ events' = <<>>
    /\ UNCHANGED <<gmap, guest_to_host, host_to_guest, allow_gmap_hpage_1m, facility,
                   fwd, linked, shadowVars, lockVars, gmap_ref_count, rm, rd>>
    /\ UNCHANGED <<gmap_notifier_list, nbs, disp, reg_order>>

\* gmap_remove of the gmap k, which has no shadow: list_del_rcu and the
\* store of gmap_asce, with mm->context.lock
sibling_remove_list_del(k) ==
    /\ siblings[k].pc = "listed"
    /\ LET list == SelectSeq(mm.gmap_list, LAMBDA t : t # siblings[k].g.table) IN
       mm' = [gmap_list |-> list, gmap_asce |-> GmapAsce(list)]
    /\ siblings' = [siblings EXCEPT ![k].pc = "sync"]
    /\ UNCHANGED <<mapVars, shadowVars, lockVars, gmap_ref_count, rm, rd>>
    /\ UNCHANGED <<gmap_notifier_list, nbs, disp, reg_order>>

\* gmap_remove of the gmap k calls synchronize_rcu
sibling_remove_synchronize(k) ==
    /\ siblings[k].pc = "sync"
    /\ siblings' = [siblings EXCEPT ![k].pc = "wait",
                       ![k].waiting = synchronize_rcu({r \in Readers : rd[r].pc # "idle"})]
    /\ UNCHANGED <<mapVars, shadowVars, lockVars, lifeVars>>
    /\ UNCHANGED <<gmap_notifier_list, nbs, disp, reg_order>>

\* synchronize_rcu returns; gmap_put drops the only reference and gmap_free
\* frees the tables of the gmap k
sibling_remove_put(k) ==
    /\ siblings[k].pc = "wait"
    /\ \A r \in siblings[k].waiting : rd[r].pc = "idle"
    /\ \E t \in {gmap_free_crst(Tables(mem, pg_alloc, 0), siblings[k].g.table, FALSE)} :
       /\ mem' = t.mem
       /\ pg_alloc' = t.alloc
    /\ siblings' = [siblings EXCEPT ![k] = NoSibling]
    /\ events' = <<>>
    /\ UNCHANGED <<gmap, guest_to_host, host_to_guest, allow_gmap_hpage_1m, facility,
                   ret, fwd, linked, shadowVars, lockVars, lifeVars>>
    /\ UNCHANGED <<gmap_notifier_list, nbs, disp, reg_order>>

(* ------------------------------------------------------------------ *)
(* __gmap_link in steps: the tables above the segment table             *)
(* ------------------------------------------------------------------ *)

\* a call of __gmap_link in flight is kept in thr: level is the type of
\* the table in page paddr (the variable table), saddr the guest address,
\* len the host address, page the page gmap_alloc_table has allocated (0:
\* NULL)

\* the entry of the table of thread t for its guest address
LinkEntry(c) == Ptr(c.paddr, Idx(c.saddr, _SEGMENT_SHIFT + (c.level \div 4) * IdxBits))

\* the page is stored whatever the entry holds
alloc_table_overwrite(m, ptr, new) ==
    [mem |-> [m EXCEPT ![ptr.pg][ptr.ix] = [@ EXCEPT !.o = new, !.i = FALSE]], page |-> 0]

\* gmap_alloc_table with gmap->guest_table_lock: the page is stored into an
\* entry that is still invalid, and then page is NULL
gmap_alloc_table_locked(m, ptr, new) ==
    IF Deref(m, ptr).i
    THEN [mem |-> [m EXCEPT ![ptr.pg][ptr.ix] = [@ EXCEPT !.o = new, !.i = FALSE]], page |-> 0]
    ELSE [mem |-> m, page |-> new]

\* the rest of the state stays as it is
NoLinkChange ==
    UNCHANGED <<gmap, guest_to_host, host_to_guest, allow_gmap_hpage_1m, facility, fwd,
                linked, events, sg, host_to_rmap, rmap_live, lifeVars, globalVars, lockVars>>

\* __gmap_link is called: table = gmap->table
link_enter(t, gaddr, vmaddr) ==
    /\ thr[t].pc = "idle"
    /\ gaddr <= gmap.asce_end
    /\ thr' = [thr EXCEPT ![t] = [Idle EXCEPT !.pc = "link_walk", !.level = gmap.asce_type,
                                              !.saddr = gaddr, !.len = vmaddr,
                                              !.paddr = gmap.table]]
    /\ UNCHANGED <<mem, pg_alloc, ret>>
    /\ NoLinkChange

\* the test of the entry of a region table: *table & _REGION_ENTRY_INVALID
link_walk(t) ==
    /\ thr[t].pc = "link_walk"
    /\ thr' = [thr EXCEPT ![t].pc = IF thr[t].level = _ASCE_TYPE_SEGMENT THEN "link_segment"
                                    ELSE IF Deref(mem, LinkEntry(thr[t])).i THEN "alloc_crst"
                                    ELSE "link_descend"]
    /\ UNCHANGED <<mem, pg_alloc, ret>>
    /\ NoLinkChange

\* gmap_alloc_table before the lock: gmap_alloc_crst and crst_table_init;
\* -ENOMEM without a page
alloc_table_page(t, allocFail) ==
    /\ thr[t].pc = "alloc_crst"
    /\ IF allocFail \/ Pages \ pg_alloc = {}
       THEN /\ thr' = [thr EXCEPT ![t] = Idle]
            /\ ret' = Ret("link", -ENOMEM)
            /\ UNCHANGED <<mem, pg_alloc>>
       ELSE \E new \in {AllocPage(pg_alloc)} :
            /\ pg_alloc' = pg_alloc \cup {new}
            /\ mem' = [mem EXCEPT ![new] = crst_table_init(EmptyEntry(thr[t].level - 4))]
            /\ thr' = [thr EXCEPT ![t].page = new, ![t].pc = "alloc_locked"]
            /\ UNCHANGED ret
    /\ NoLinkChange

\* gmap_alloc_table from spin_lock to spin_unlock
alloc_table_install(t) ==
    /\ thr[t].pc = "alloc_locked"
    /\ \E r \in {gmap_alloc_table_locked(mem, LinkEntry(thr[t]), thr[t].page)} :
       /\ mem' = r.mem
       /\ thr' = [thr EXCEPT ![t].page = r.page, ![t].pc = "alloc_free"]
    /\ UNCHANGED <<pg_alloc, ret>>
    /\ NoLinkChange

\* gmap_alloc_table after the lock: the page that was not stored is freed
alloc_table_free(t) ==
    /\ thr[t].pc = "alloc_free"
    /\ IF thr[t].page # 0
       THEN /\ pg_alloc' = pg_alloc \ {thr[t].page}
            /\ mem' = [mem EXCEPT ![thr[t].page] = crst_table_init(_SEGMENT_ENTRY_EMPTY)]
       ELSE UNCHANGED <<mem, pg_alloc>>
    /\ thr' = [thr EXCEPT ![t].page = 0, ![t].pc = "link_descend"]
    /\ UNCHANGED ret
    /\ NoLinkChange

\* table = __va(*table & _REGION_ENTRY_ORIGIN)
link_descend(t) ==
    /\ thr[t].pc = "link_descend"
    /\ thr' = [thr EXCEPT ![t].paddr = Deref(mem, LinkEntry(thr[t])).o,
                          ![t].level = @ - 4,
                          ![t].pc = "link_walk"]
    /\ UNCHANGED <<mem, pg_alloc, ret>>
    /\ NoLinkChange

\* __gmap_link from the segment entry on: the walk of the host's table, and
\* the entry is linked with pmd_lock and gmap->guest_table_lock
link_segment(t, pmd, fail) ==
    /\ thr[t].pc = "link_segment"
    /\ \E r \in {__gmap_link(gmap, mem, pg_alloc, host_to_guest, allow_gmap_hpage_1m,
                              facility, thr[t].saddr, thr[t].len, pmd, fail)} :
       /\ mem' = r.mem
       /\ pg_alloc' = r.alloc
       /\ host_to_guest' = r.h2g
       /\ events' = r.evs
       /\ ret' = Ret("link", r.rc)
       /\ linked' = IF r.rc = 0
                    THEN [linked EXCEPT ![thr[t].saddr \div PMD_SIZE] =
                            [g |-> AlignDown(thr[t].saddr, PMD_SIZE),
                             v |-> AlignDown(thr[t].len, PMD_SIZE),
                             pre |-> __gmap_translate(guest_to_host, thr[t].saddr) = thr[t].len]]
                    ELSE linked
    /\ thr' = [thr EXCEPT ![t] = Idle]
    /\ UNCHANGED <<gmap, guest_to_host, allow_gmap_hpage_1m, facility, fwd,
                   sg, host_to_rmap, rmap_live, lifeVars, globalVars, lockVars>>

(* ------------------------------------------------------------------ *)
(* The locks and the retry loops, step by step, on one guest page       *)
(* ------------------------------------------------------------------ *)

\* bounds: the threads that make calls, the calls they make in all, and the
\* times fixup_user_fault returns with *unlocked set
MaxLockThreads == 2
MaxLockCalls == 3
MaxUnlocked == 1
LockThreads == 1 .. MaxLockThreads

\* pmd_lock(mm, pmd) and the lock of the page table of the pte
\* (pte_alloc_map_lock) of the host; gmap->guest_table_lock and
\* sg->guest_table_lock; gmap->shadow_lock
PageTableLocks == {"pmd_ptl", "pte_ptl"}
SpaceLocks == {"gmap_gtl", "sg_gtl"}

\* a thread that makes no call
NoCall == [op |-> "none", pc |-> "idle", held |-> <<>>, rc |-> 0, prot |-> "read"]

\* the page: guest_to_host maps its segment (mapped), the segment entry of
\* the gmap is linked, the host pte ("none", "ro", "rw"), PGSTE_VSIE_BIT
\* (vsie), the records of host_to_rmap for it (rmap: "pgt", "page"), the
\* shadow page table ("none"; "invalid" or "valid", installed by thread
\* pgt_of) and the shadow pte (spte); the calls made, the times unlocked;
\* the host maps the segment with a large page (large); the gmap is on
\* mm->context.gmap_list with its children ("listed"), gmap_remove has
\* emptied gmap->children ("childless") and has deleted the gmap from the
\* list ("unlisted"); the notifiers that are registered (nb)
NoPage == [mapped |-> TRUE, linked |-> FALSE, pte |-> "none", vsie |-> FALSE, rmap |-> {},
           pgt |-> "none", pgt_of |-> 0, spte |-> FALSE, calls |-> 0, unlocked |-> 0,
           large |-> FALSE, life |-> "listed", nb |-> {}]

NoLockCalls ==
    /\ lt = [t \in LockThreads |-> NoCall]
    /\ gpage = NoPage

\* the calls: gmap_fault's __gmap_link, gmap_shadow_pgt with its
\* gmap_protect_rmap, gmap_shadow_page, gmap_read_table, the change of the
\* host pte with ptep_notify, and gmap_unmap_segment
LockOps == {"link", "shadow_pgt", "shadow_page", "read_table", "notify", "unmap"}

\* where each call begins
FirstPc(op) ==
    CASE op = "link" -> "link_pmd_lock"
      [] op = "shadow_pgt" -> "pgt_sg_lock"
      [] op = "shadow_page" -> "page_translate"
      [] op = "read_table" -> "read_walk"
      [] op = "notify" -> "pte_lock"
      [] op = "unmap" -> "unmap_gtl_lock"

\* the head of the loop that a successful gmap_pte_op_fixup goes back to
LoopHead(op) ==
    CASE op = "shadow_pgt" -> "rmap_translate"
      [] op = "shadow_page" -> "page_translate"
      [] op = "read_table" -> "read_walk"
      [] OTHER -> "done"

\* the lock is free
Free(l) == \A t \in LockThreads : \A k \in 1 .. Len(lt[t].held) : lt[t].held[k] # l

\* the lock is kept
release_nothing(held, l) == held

\* spin_unlock
Release(held, l) == SelectSeq(held, LAMBDA x : x # l)

\* __gmap_link takes gmap->guest_table_lock before pmd_lock
spin_lock_space_first(pc) ==
    CASE pc = "link_pmd_lock" -> "gmap_gtl"
      [] pc = "link_gtl_lock" -> "pmd_ptl"
      [] pc = "pgt_sg_lock" -> "sg_gtl"
      [] pc = "pgt_sg_relock" -> "sg_gtl"
      [] pc = "rmap_sg_lock" -> "sg_gtl"
      [] pc = "page_sg_lock" -> "sg_gtl"
      [] pc = "pte_lock" -> "pte_ptl"
      [] pc = "notify_gtl_lock" -> "gmap_gtl"
      [] pc = "notify_shadow_lock" -> "shadow_lock"
      [] pc = "notify_sg_lock" -> "sg_gtl"
      [] pc = "unmap_gtl_lock" -> "gmap_gtl"

\* the lock that the spin_lock (or pmd_lock, or the caller of ptep_notify)
\* at pc takes
SpinLockAt(pc) ==
    CASE pc = "link_pmd_lock" -> "pmd_ptl"
      [] pc = "link_gtl_lock" -> "gmap_gtl"
      [] pc = "pgt_sg_lock" -> "sg_gtl"
      [] pc = "pgt_sg_relock" -> "sg_gtl"
      [] pc = "rmap_sg_lock" -> "sg_gtl"
      [] pc = "page_sg_lock" -> "sg_gtl"
      [] pc = "pte_lock" -> "pte_ptl"
      [] pc = "notify_gtl_lock" -> "gmap_gtl"
      [] pc = "notify_shadow_lock" -> "shadow_lock"
      [] pc = "notify_sg_lock" -> "sg_gtl"
      [] pc = "unmap_gtl_lock" -> "gmap_gtl"

\* the statement after the spin_lock at pc
AfterLock(pc) ==
    CASE pc = "link_pmd_lock" -> "link_gtl_lock"
      [] pc = "link_gtl_lock" -> "link_locked"
      [] pc = "pgt_sg_lock" -> "pgt_install"
      [] pc = "pgt_sg_relock" -> "pgt_finish"
      [] pc = "rmap_sg_lock" -> "rmap_locked"
      [] pc = "page_sg_lock" -> "page_locked"
      [] pc = "pte_lock" -> "pte_change"
      [] pc = "notify_gtl_lock" -> "notify_lookup"
      [] pc = "notify_shadow_lock" -> "notify_sg_lock"
      [] pc = "notify_sg_lock" -> "notify_shadow"
      [] pc = "unmap_gtl_lock" -> "unmap_locked"

SpinLockPcs == {"link_pmd_lock", "link_gtl_lock", "pgt_sg_lock", "pgt_sg_relock",
                "rmap_sg_lock", "page_sg_lock", "pte_lock", "notify_gtl_lock",
                "notify_shadow_lock", "notify_sg_lock", "unmap_gtl_lock"}

\* the host pte is left as it is
fault_in_nothing(pte, prot) == pte

\* fixup_user_fault that succeeds: the host pte is present, and writable for
\* FAULT_FLAG_WRITE
fixup_user_fault(pte, prot) ==
    IF prot = "write" THEN "rw" ELSE IF pte = "none" THEN "ro" ELSE pte

\* gmap_shadow_notify for the page: gmap_unshadow_pgt for the record of a
\* page table, gmap_unshadow_page for the record of a page; the list is
\* deleted from host_to_rmap
ShadowNotified(pg) ==
    [pg EXCEPT !.rmap = {},
               !.spte = FALSE,
               !.pgt = IF "pgt" \in pg.rmap THEN "none" ELSE @,
               !.pgt_of = IF "pgt" \in pg.rmap THEN 0 ELSE @]

\* the rest of the model stays as it is
NoSpaceChange == UNCHANGED <<mapVars, shadowVars, lifeVars, globalVars>>

\* the call of thread t returns rc: gmap_protect_rmap returns to
\* gmap_shadow_pgt, which takes sg->guest_table_lock again
Return(c, rc) ==
    IF c.op = "shadow_pgt" /\ c.pc # "pgt_install" /\ c.pc # "pgt_finish"
    THEN [c EXCEPT !.pc = "pgt_sg_relock", !.rc = rc]
    ELSE [c EXCEPT !.pc = "done", !.rc = rc]

\* a thread makes a call
lock_call(t, op, prot) ==
    /\ lt[t].pc \in {"idle", "done"}
    /\ gpage.calls < MaxLockCalls
    /\ op = "link" => gpage.mapped
    /\ lt' = [lt EXCEPT ![t] = [op |-> op, pc |-> FirstPc(op), held |-> <<>>, rc |-> 0,
                                prot |-> prot]]
    /\ gpage' = [gpage EXCEPT !.calls = @ + 1]
    /\ NoSpaceChange

\* spin_lock, pmd_lock: the thread spins until the lock is free
spin_lock(t) ==
    /\ lt[t].pc \in SpinLockPcs
    /\ lt[t].pc = "notify_shadow_lock" => gpage.life = "listed"
    /\ Free(SpinLockAt(lt[t].pc))
    /\ lt' = [lt EXCEPT ![t].held = Append(@, SpinLockAt(lt[t].pc)),
                        ![t].pc = AfterLock(lt[t].pc)]
    /\ UNCHANGED gpage
    /\ NoSpaceChange

\* gmap_pte_op_walk in the three loops: NULL for a segment entry that is
\* not linked (rc stays -EAGAIN), else the pte with its lock
gmap_pte_op_walk(t) ==
    /\ lt[t].pc \in {"rmap_walk", "page_walk", "read_walk"}
    /\ IF ~gpage.linked
       THEN lt' = [lt EXCEPT ![t].rc = -EAGAIN,
                             ![t].pc = IF lt[t].pc = "read_walk" THEN "read_translate"
                                       ELSE "fixup"]
       ELSE /\ Free("pte_ptl")
            /\ lt' = [lt EXCEPT ![t].held = Append(@, "pte_ptl"),
                                ![t].pc = CASE lt[t].pc = "rmap_walk" -> "rmap_sg_lock"
                                            [] lt[t].pc = "page_walk" -> "page_sg_lock"
                                            [] lt[t].pc = "read_walk" -> "read_locked"]
    /\ UNCHANGED gpage
    /\ NoSpaceChange

\* __gmap_link with both locks: the segment entry is linked, unless
\* radix_tree_insert fails; spin_unlock of both; gmap_pte_op_fixup returns
\* to the loop
link_locked(t, nomem) ==
    /\ lt[t].pc = "link_locked"
    /\ \E fails \in {nomem /\ ~gpage.linked} :
       \E c \in {[lt[t] EXCEPT !.held = Release(Release(@, "gmap_gtl"), "pmd_ptl")]} :
       /\ gpage' = [gpage EXCEPT !.linked = @ \/ ~fails]
       /\ lt' = [lt EXCEPT ![t] =
                    IF fails THEN Return(c, -ENOMEM)
                    ELSE IF c.op = "link" THEN Return(c, 0)
                    ELSE [c EXCEPT !.pc = LoopHead(c.op), !.rc = 0]]
    /\ NoSpaceChange

\* gmap_pte_op_fixup, called at the end of a pass of a loop: fixup_user_fault
\* fails ("fault"), returns with *unlocked set ("unlocked"), or succeeds and
\* __gmap_link follows ("ok").  Where the fault makes a protected pte
\* writable the host notifies the shadow spaces
gmap_pte_op_fixup(t, outcome) ==
    /\ lt[t].pc = "fixup"
    /\ outcome = "unlocked" => gpage.unlocked < MaxUnlocked
    /\ IF outcome = "fault"
       THEN /\ lt' = [lt EXCEPT ![t] = Return(@, -EFAULT)]
            /\ UNCHANGED gpage
       ELSE \E pte \in {fixup_user_fault(gpage.pte, lt[t].prot)} :
            \E pg \in {IF pte # gpage.pte /\ gpage.vsie /\ gpage.linked
                       THEN [ShadowNotified(gpage) EXCEPT !.vsie = FALSE]
                       ELSE gpage} :
            /\ gpage' = [pg EXCEPT !.pte = pte,
                                  !.unlocked = IF outcome = "unlocked" THEN @ + 1 ELSE @]
            /\ lt' = [lt EXCEPT ![t].rc = 0,
                                ![t].pc = IF outcome = "unlocked" THEN LoopHead(lt[t].op)
                                          ELSE "link_pmd_lock"]
    /\ NoSpaceChange

\* gmap_shadow_pgt with sg->guest_table_lock: "Already established", "Race
\* with shadow", or the table is installed invalid; spin_unlock
gmap_shadow_pgt_install(t) ==
    /\ lt[t].pc = "pgt_install"
    /\ \E c \in {[lt[t] EXCEPT !.held = Release(@, "sg_gtl")]} :
       IF gpage.pgt = "none"
       THEN /\ gpage' = [gpage EXCEPT !.pgt = "invalid", !.pgt_of = t]
            /\ lt' = [lt EXCEPT ![t] = [c EXCEPT !.pc = "rmap_translate"]]
       ELSE /\ lt' = [lt EXCEPT ![t] = Return(c, IF gpage.pgt = "valid" THEN 0 ELSE -EAGAIN)]
            /\ UNCHANGED gpage
    /\ NoSpaceChange

\* the head of the loop of gmap_protect_rmap: __gmap_translate, kzalloc and
\* radix_tree_preload
gmap_protect_rmap_translate(t, nomem) ==
    /\ lt[t].pc = "rmap_translate"
    /\ lt' = [lt EXCEPT ![t] = IF ~gpage.mapped THEN Return(@, -EFAULT)
                               ELSE IF nomem THEN Return(@, -ENOMEM)
                               ELSE [@ EXCEPT !.pc = "rmap_walk"]]
    /\ UNCHANGED gpage
    /\ NoSpaceChange

\* gmap_protect_rmap with the lock of the pte and sg->guest_table_lock:
\* ptep_force_prot fails for a pte that is not present, else the pte is
\* protected, PGSTE_VSIE_BIT set and the record inserted; both unlocked
gmap_protect_rmap_locked(t) ==
    /\ lt[t].pc = "rmap_locked"
    /\ \E c \in {[lt[t] EXCEPT !.held = Release(Release(@, "sg_gtl"), "pte_ptl")]} :
       IF gpage.pte = "none"
       THEN /\ lt' = [lt EXCEPT ![t] = [c EXCEPT !.pc = "fixup", !.rc = -EAGAIN]]
            /\ UNCHANGED gpage
       ELSE /\ lt' = [lt EXCEPT ![t] = Return(c, 0)]
            /\ gpage' = [gpage EXCEPT !.pte = "ro", !.vsie = TRUE, !.rmap = @ \cup {"pgt"}]
    /\ NoSpaceChange

\* the end of gmap_shadow_pgt with sg->guest_table_lock again: the entry is
\* made valid, "Race with unshadow", or gmap_unshadow_pgt; spin_unlock
gmap_shadow_pgt_finish(t) ==
    /\ lt[t].pc = "pgt_finish"
    /\ \E c \in {[lt[t] EXCEPT !.held = Release(@, "sg_gtl")]} :
       IF c.rc # 0
       THEN /\ gpage' = [gpage EXCEPT !.pgt = "none", !.pgt_of = 0, !.spte = FALSE]
            /\ lt' = [lt EXCEPT ![t] = Return(c, c.rc)]
       ELSE IF gpage.pgt # "none" /\ gpage.pgt_of = t
       THEN /\ gpage' = [gpage EXCEPT !.pgt = "valid"]
            /\ lt' = [lt EXCEPT ![t] = Return(c, 0)]
       ELSE /\ lt' = [lt EXCEPT ![t] = Return(c, -EAGAIN)]
            /\ UNCHANGED gpage
    /\ NoSpaceChange

\* the head of the loop of gmap_shadow_page: __gmap_translate and
\* radix_tree_preload
gmap_shadow_page_translate(t, nomem) ==
    /\ lt[t].pc = "page_translate"
    /\ lt' = [lt EXCEPT ![t] = IF ~gpage.mapped THEN Return(@, -EFAULT)
                               ELSE IF nomem THEN Return(@, -ENOMEM)
                               ELSE [@ EXCEPT !.pc = "page_walk"]]
    /\ UNCHANGED gpage
    /\ NoSpaceChange

\* gmap_shadow_page with the lock of the pte and sg->guest_table_lock: no
\* shadow page table (break with -EAGAIN), or ptep_shadow_pte: 0 for a
\* shadow pte that is valid, -EAGAIN for a host pte that is not present or
\* not writable for PROT_WRITE, else the shadow pte is made and the record
\* inserted; both unlocked
gmap_shadow_page_locked(t) ==
    /\ lt[t].pc = "page_locked"
    /\ \E c \in {[lt[t] EXCEPT !.held = Release(Release(@, "pte_ptl"), "sg_gtl")]} :
       IF gpage.pgt # "valid"
       THEN /\ lt' = [lt EXCEPT ![t] = Return(c, -EAGAIN)]
            /\ UNCHANGED gpage
       ELSE IF gpage.spte
       THEN /\ lt' = [lt EXCEPT ![t] = Return(c, 0)]
            /\ UNCHANGED gpage
       ELSE IF gpage.pte = "none" \/ (c.prot = "write" /\ gpage.pte = "ro")
       THEN /\ lt' = [lt EXCEPT ![t] = [c EXCEPT !.pc = "fixup", !.rc = -EAGAIN]]
            /\ UNCHANGED gpage
       ELSE /\ lt' = [lt EXCEPT ![t] = Return(c, 0)]
            /\ gpage' = [gpage EXCEPT !.spte = TRUE, !.vsie = TRUE, !.rmap = @ \cup {"page"}]
    /\ NoSpaceChange

\* gmap_read_table with the lock of the pte: the value is read from a pte
\* that is present and readable; gmap_pte_op_end
gmap_read_table_locked(t) ==
    /\ lt[t].pc = "read_locked"
    /\ \E c \in {[lt[t] EXCEPT !.held = Release(@, "pte_ptl")]} :
       lt' = [lt EXCEPT ![t] = IF gpage.pte # "none" THEN Return(c, 0)
                               ELSE [c EXCEPT !.pc = "read_translate", !.rc = -EAGAIN]]
    /\ UNCHANGED gpage
    /\ NoSpaceChange

\* gmap_read_table after a pass that has read nothing: __gmap_translate
gmap_read_table_translate(t) ==
    /\ lt[t].pc = "read_translate"
    /\ lt' = [lt EXCEPT ![t] = IF ~gpage.mapped THEN Return(@, -EFAULT)
                               ELSE [@ EXCEPT !.pc = "fixup"]]
    /\ UNCHANGED gpage
    /\ NoSpaceChange

\* the host changes the pte with its lock: the pte is not present, and for
\* PGSTE_VSIE_BIT ptep_notify is called
pte_change(t) ==
    /\ lt[t].pc = "pte_change"
    /\ gpage' = [gpage EXCEPT !.pte = "none", !.vsie = FALSE]
    /\ lt' = [lt EXCEPT ![t] = IF gpage.vsie THEN [@ EXCEPT !.pc = "notify_gtl_lock"]
                               ELSE Return([@ EXCEPT !.held = Release(@, "pte_ptl")], 0)]
    /\ NoSpaceChange

\* ptep_notify with gmap->guest_table_lock: host_to_guest_lookup;
\* spin_unlock; the gmap is skipped if the address is not linked
ptep_notify_lookup(t) ==
    /\ lt[t].pc = "notify_lookup"
    /\ lt' = [lt EXCEPT ![t].held = Release(@, "gmap_gtl"),
                        ![t].pc = IF gpage.linked THEN "notify_shadow_lock"
                                  ELSE "notify_return"]
    /\ UNCHANGED gpage
    /\ NoSpaceChange

\* gmap_shadow_notify with gmap->shadow_lock and sg->guest_table_lock;
\* both unlocked
gmap_shadow_notify_locked(t) ==
    /\ lt[t].pc = "notify_shadow"
    /\ gpage' = ShadowNotified(gpage)
    /\ lt' = [lt EXCEPT ![t].held = Release(Release(@, "sg_gtl"), "shadow_lock"),
                        ![t].pc = "notify_return"]
    /\ NoSpaceChange

\* ptep_notify has returned: the host unlocks the pte
ptep_notify_return(t) ==
    /\ lt[t].pc = "notify_return"
    /\ lt' = [lt EXCEPT ![t] = Return([@ EXCEPT !.held = Release(@, "pte_ptl")], 0)]
    /\ UNCHANGED gpage
    /\ NoSpaceChange

\* gmap_unmap_segment: the entry of guest_to_host is deleted, and
\* __gmap_unlink_by_vmaddr with gmap->guest_table_lock empties the segment
\* entry; spin_unlock
unmap_locked(t) ==
    /\ lt[t].pc = "unmap_locked"
    /\ gpage' = [gpage EXCEPT !.mapped = FALSE, !.linked = FALSE]
    /\ lt' = [lt EXCEPT ![t] = Return([@ EXCEPT !.held = Release(@, "gmap_gtl")], 0)]
    /\ NoSpaceChange

\* the steps of the call of thread t
LockStep(t) ==
    \/ spin_lock(t)
    \/ gmap_pte_op_walk(t)
    \/ \E nomem \in BOOLEAN : link_locked(t, nomem)
    \/ \E outcome \in {"fault", "unlocked", "ok"} : gmap_pte_op_fixup(t, outcome)
    \/ gmap_shadow_pgt_install(t)
    \/ \E nomem \in BOOLEAN : gmap_protect_rmap_translate(t, nomem)
    \/ gmap_protect_rmap_locked(t)
    \/ gmap_shadow_pgt_finish(t)
    \/ \E nomem \in BOOLEAN : gmap_shadow_page_translate(t, nomem)
    \/ gmap_shadow_page_locked(t)
    \/ gmap_read_table_locked(t)
    \/ gmap_read_table_translate(t)
    \/ pte_change(t)
    \/ ptep_notify_lookup(t)
    \/ gmap_shadow_notify_locked(t)
    \/ ptep_notify_return(t)
    \/ unmap_locked(t)

(* ------------------------------------------------------------------ *)
(* The other calls that take locks: gmap_protect_one, gmap_pmdp_clear,  *)
(* gmap_remove, gmap_register_pte_notifier and its counterpart          *)
(* ------------------------------------------------------------------ *)

\* mm->context.lock and gmap_notifier_lock
ListLocks == {"context_lock", "gmap_notifier_lock"}

OrderOps == {"protect", "invalidate", "remove", "register", "unregister"}

\* the calls made on the gmap by its owner, which makes none of them during
\* or after gmap_remove
OwnerOps == {"link", "shadow_pgt", "shadow_page", "read_table", "unmap", "protect"}

\* the calls for a segment that the host maps with ptes, and for one that
\* it maps with a large page
PteOps == {"shadow_pgt", "shadow_page", "read_table", "notify"}
PmdOps == {"invalidate"}

\* where each call begins
OrderFirstPc(op) ==
    CASE op = "protect" -> "prot_walk"
      [] op = "invalidate" -> "inv_pmd_lock"
      [] op = "remove" -> "remove_shadow_lock"
      [] op = "register" -> "reg_lock"
      [] op = "unregister" -> "unreg_lock"
      [] OTHER -> FirstPc(op)

\* gmap_pmdp_clear takes gmap->guest_table_lock before the host takes the
\* lock of the pmd
order_lock_space_first(pc) ==
    CASE pc = "prot_gtl_lock" -> "gmap_gtl"
      [] pc = "prot_pte_lock" -> "pte_ptl"
      [] pc = "inv_pmd_lock" -> "gmap_gtl"
      [] pc = "inv_gtl_lock" -> "pmd_ptl"
      [] pc = "remove_shadow_lock" -> "shadow_lock"
      [] pc = "remove_ctx_lock" -> "context_lock"
      [] pc = "reg_lock" -> "gmap_notifier_lock"
      [] pc = "unreg_lock" -> "gmap_notifier_lock"

\* the lock that the spin_lock (or pte_alloc_map_lock, or the caller of
\* gmap_pmdp_clear) at pc takes
OrderSpinLockAt(pc) ==
    CASE pc = "prot_gtl_lock" -> "gmap_gtl"
      [] pc = "prot_pte_lock" -> "pte_ptl"
      [] pc = "inv_pmd_lock" -> "pmd_ptl"
      [] pc = "inv_gtl_lock" -> "gmap_gtl"
      [] pc = "remove_shadow_lock" -> "shadow_lock"
      [] pc = "remove_ctx_lock" -> "context_lock"
      [] pc = "reg_lock" -> "gmap_notifier_lock"
      [] pc = "unreg_lock" -> "gmap_notifier_lock"

\* the statement after the spin_lock at pc
OrderAfterLock(pc) ==
    CASE pc = "prot_gtl_lock" -> "prot_gtl_locked"
      [] pc = "prot_pte_lock" -> "prot_pte_locked"
      [] pc = "inv_pmd_lock" -> "inv_gtl_lock"
      [] pc = "inv_gtl_lock" -> "inv_locked"
      [] pc = "remove_shadow_lock" -> "remove_children"
      [] pc = "remove_ctx_lock" -> "remove_listed"
      [] pc = "reg_lock" -> "reg_locked"
      [] pc = "unreg_lock" -> "unreg_locked"

OrderSpinLockPcs == {"prot_gtl_lock", "prot_pte_lock", "inv_pmd_lock", "inv_gtl_lock",
                     "remove_shadow_lock", "remove_ctx_lock", "reg_lock", "unreg_lock"}

\* the statements of ptep_notify and gmap_pmdp_clear between rcu_read_lock
\* and rcu_read_unlock
RcuReadPcs == {"notify_gtl_lock", "notify_lookup", "notify_shadow_lock", "notify_sg_lock",
               "notify_shadow", "inv_gtl_lock", "inv_locked"}

\* thread t is in a call
Running(t) == lt[t].pc \notin {"idle", "done"}

\* the segment entry of the gmap is a large leaf
Leaf(pg) == pg.large /\ pg.linked

\* spin_unlock: the lock is free, whoever held it
Unlock(l) == [u \in LockThreads |-> [lt[u] EXCEPT !.held = Release(@, l)]]

\* the host maps the segment with a large page, before any call is made
hugetlb_mapped ==
    /\ gpage = NoPage
    /\ \A t \in LockThreads : lt[t] = NoCall
    /\ gpage' = [gpage EXCEPT !.large = TRUE]
    /\ UNCHANGED lt
    /\ NoSpaceChange

\* a thread makes a call; thread t registers and unregisters notifier t
order_call(t, op, prot) ==
    /\ ~Running(t)
    /\ gpage.calls < MaxLockCalls
    /\ op = "link" => gpage.mapped
    /\ op \in OwnerOps =>
          /\ gpage.life = "listed"
          /\ \A u \in LockThreads : Running(u) => lt[u].op # "remove"
    /\ op \in PteOps => ~gpage.large /\ gpage.life # "unlisted"
    /\ op \in PmdOps => gpage.large /\ gpage.life # "unlisted"
    /\ op = "remove" =>
          /\ gpage.life = "listed"
          /\ \A u \in LockThreads : Running(u) => lt[u].op \notin OwnerOps \cup {"remove"}
    /\ op = "register" => t \notin gpage.nb
    /\ op = "unregister" => t \in gpage.nb
    /\ lt' = [lt EXCEPT ![t] = [op |-> op, pc |-> OrderFirstPc(op), held |-> <<>>, rc |-> 0,
                                prot |-> prot]]
    /\ gpage' = [gpage EXCEPT !.calls = @ + 1]
    /\ NoSpaceChange

\* spin_lock, pte_alloc_map_lock: the thread spins until the lock is free
order_spin_lock(t) ==
    /\ lt[t].pc \in OrderSpinLockPcs
    /\ Free(OrderSpinLockAt(lt[t].pc))
    /\ lt' = [lt EXCEPT ![t].held = Append(@, OrderSpinLockAt(lt[t].pc)),
                        ![t].pc = OrderAfterLock(lt[t].pc)]
    /\ UNCHANGED gpage
    /\ NoSpaceChange

\* gmap_pmd_op_walk: without huge pages the segment entry is tested without
\* a lock, with them gmap->guest_table_lock is taken first
protect_one_walk(t, hpage) ==
    /\ lt[t].pc = "prot_walk"
    /\ gpage.large => hpage
    /\ lt' = [lt EXCEPT ![t] = IF hpage THEN [@ EXCEPT !.pc = "prot_gtl_lock"]
                               ELSE IF ~gpage.linked THEN Return(@, -EAGAIN)
                               ELSE [@ EXCEPT !.pc = "prot_pte"]]
    /\ UNCHANGED gpage
    /\ NoSpaceChange

\* gmap_pmd_op_walk with gmap->guest_table_lock: NULL for an empty entry;
\* the lock is kept for a large leaf only
protect_one_walk_locked(t) ==
    /\ lt[t].pc = "prot_gtl_locked"
    /\ lt' = [lt EXCEPT ![t] =
                 IF ~gpage.linked THEN Return([@ EXCEPT !.held = Release(@, "gmap_gtl")], -EAGAIN)
                 ELSE IF Leaf(gpage) THEN [@ EXCEPT !.pc = "prot_pmd"]
                 ELSE [@ EXCEPT !.held = Release(@, "gmap_gtl"), !.pc = "prot_pte"]]
    /\ UNCHANGED gpage
    /\ NoSpaceChange

\* gmap_protect_pte before pte_alloc_map_lock: -EAGAIN for an invalid
\* segment entry, -ENOMEM without a page table
protect_one_pte(t, nomem) ==
    /\ lt[t].pc = "prot_pte"
    /\ lt' = [lt EXCEPT ![t] = IF ~gpage.linked THEN [@ EXCEPT !.pc = "prot_end", !.rc = -EAGAIN]
                               ELSE IF nomem THEN [@ EXCEPT !.pc = "prot_end", !.rc = -ENOMEM]
                               ELSE [@ EXCEPT !.pc = "prot_pte_lock"]]
    /\ UNCHANGED gpage
    /\ NoSpaceChange

\* gmap_protect_pte with the lock of the pte: ptep_force_prot fails for a
\* pte that is not present, else the pte is protected; gmap_pte_op_end
protect_one_pte_locked(t) ==
    /\ lt[t].pc = "prot_pte_locked"
    /\ \E c \in {[lt[t] EXCEPT !.held = Release(@, "pte_ptl"), !.pc = "prot_end"]} :
       IF gpage.pte = "none"
       THEN /\ lt' = [lt EXCEPT ![t] = [c EXCEPT !.rc = -EAGAIN]]
            /\ UNCHANGED gpage
       ELSE /\ lt' = [lt EXCEPT ![t] = [c EXCEPT !.rc = PAGE_SIZE]]
            /\ gpage' = [gpage EXCEPT !.pte = "ro"]
    /\ NoSpaceChange

\* gmap_protect_pmd for the large leaf, with gmap->guest_table_lock
protect_one_pmd_locked(t) ==
    /\ lt[t].pc = "prot_pmd"
    /\ lt' = [lt EXCEPT ![t].pc = "prot_end", ![t].rc = PMD_SIZE]
    /\ UNCHANGED gpage
    /\ NoSpaceChange

\* gmap_pmd_op_end: spin_unlock of gmap->guest_table_lock if the entry is a
\* large leaf now; gmap_protect_one returns
protect_one_end(t) ==
    /\ lt[t].pc = "prot_end"
    /\ \E all \in {IF Leaf(gpage) THEN Unlock("gmap_gtl") ELSE lt} :
       lt' = [all EXCEPT ![t] = Return(@, lt[t].rc)]
    /\ UNCHANGED gpage
    /\ NoSpaceChange

\* gmap_pmdp_clear with the lock of the host pmd and
\* gmap->guest_table_lock: the entry is emptied; spin_unlock
gmap_pmdp_clear_locked(t) ==
    /\ lt[t].pc = "inv_locked"
    /\ gpage' = [gpage EXCEPT !.linked = FALSE]
    /\ lt' = [lt EXCEPT ![t].held = Release(@, "gmap_gtl"), ![t].pc = "inv_return"]
    /\ NoSpaceChange

\* gmap_pmdp_clear has returned: the host unlocks the pmd
gmap_pmdp_clear_return(t) ==
    /\ lt[t].pc = "inv_return"
    /\ lt' = [lt EXCEPT ![t] = Return([@ EXCEPT !.held = Release(@, "pmd_ptl")], 0)]
    /\ UNCHANGED gpage
    /\ NoSpaceChange

\* ptep_notify finds gmap->children empty
ptep_notify_no_children(t) ==
    /\ lt[t].pc = "notify_shadow_lock"
    /\ gpage.life # "listed"
    /\ lt' = [lt EXCEPT ![t].pc = "notify_return"]
    /\ UNCHANGED gpage
    /\ NoSpaceChange

\* gmap_remove with gmap->shadow_lock: every child is deleted from the list
\* and put, which frees its tables and its records; spin_unlock
remove_children_locked(t) ==
    /\ lt[t].pc = "remove_children"
    /\ gpage' = [gpage EXCEPT !.life = "childless", !.rmap = {}, !.spte = FALSE,
                              !.pgt = "none", !.pgt_of = 0]
    /\ lt' = [lt EXCEPT ![t].held = Release(@, "shadow_lock"), ![t].pc = "remove_ctx_lock"]
    /\ NoSpaceChange

\* gmap_remove with mm->context.lock: list_del_rcu; spin_unlock
remove_listed_locked(t) ==
    /\ lt[t].pc = "remove_listed"
    /\ gpage' = [gpage EXCEPT !.life = "unlisted"]
    /\ lt' = [lt EXCEPT ![t].held = Release(@, "context_lock"), ![t].pc = "remove_sync"]
    /\ NoSpaceChange

\* synchronize_rcu returns when no thread is between rcu_read_lock and
\* rcu_read_unlock; gmap_put
remove_synchronize_rcu(t) ==
    /\ lt[t].pc = "remove_sync"
    /\ \A u \in LockThreads : lt[u].pc \notin RcuReadPcs
    /\ lt' = [lt EXCEPT ![t] = Return(@, 0)]
    /\ UNCHANGED gpage
    /\ NoSpaceChange

\* gmap_register_pte_notifier and gmap_unregister_pte_notifier with
\* gmap_notifier_lock: list_add_rcu, list_del_rcu; spin_unlock
notifier_locked(t) ==
    /\ lt[t].pc \in {"reg_locked", "unreg_locked"}
    /\ gpage' = [gpage EXCEPT !.nb = IF lt[t].pc = "reg_locked" THEN @ \cup {t} ELSE @ \ {t}]
    /\ lt' = [lt EXCEPT ![t].held = Release(@, "gmap_notifier_lock"),
                        ![t].pc = IF lt[t].pc = "reg_locked" THEN "done" ELSE "unreg_sync"]
    /\ NoSpaceChange

\* synchronize_rcu of gmap_unregister_pte_notifier
unregister_synchronize_rcu(t) ==
    /\ lt[t].pc = "unreg_sync"
    /\ \A u \in LockThreads : lt[u].pc \notin RcuReadPcs
    /\ lt' = [lt EXCEPT ![t] = Return(@, 0)]
    /\ UNCHANGED gpage
    /\ NoSpaceChange

\* the steps of the call of thread t
OrderStep(t) ==
    \/ order_spin_lock(t)
    \/ \E hpage \in BOOLEAN : protect_one_walk(t, hpage)
    \/ protect_one_walk_locked(t)
    \/ \E nomem \in BOOLEAN : protect_one_pte(t, nomem)
    \/ protect_one_pte_locked(t)
    \/ protect_one_pmd_locked(t)
    \/ protect_one_end(t)
    \/ gmap_pmdp_clear_locked(t)
    \/ gmap_pmdp_clear_return(t)
    \/ ptep_notify_no_children(t)
    \/ remove_children_locked(t)
    \/ remove_listed_locked(t)
    \/ remove_synchronize_rcu(t)
    \/ notifier_locked(t)
    \/ unregister_synchronize_rcu(t)

(* ------------------------------------------------------------------ *)
(* Spec: mapping, linking and unmapping segments                       *)
(* ------------------------------------------------------------------ *)

Init ==
    /\ \E limit \in Limits : GmapCreated(limit)
    /\ NoSiblings
    /\ NoNotifiers
    /\ NoLockCalls
    /\ GmapListed(1)
    /\ NoShadowCreated
    /\ allow_gmap_hpage_1m = FALSE
    /\ facility = "idte"

Next ==
    \/ \E c \in UnmapCalls : gmap_unmap_segment(c[1], c[2])
    \/ \E c \in MapCalls : gmap_map_segment(c[1], c[2], c[3], c[4])
    \/ \E gaddr \in GAddrs : gmap_translate(gaddr)
    \/ \E c \in LinkCalls : gmap_link(c[1], c[2], [l |-> FALSE, p |-> FALSE], c[3])
    \/ \E hs \in HSegs, kind \in InvalidateKinds :
          gmap_host_invalidate(hs * PMD_SIZE, kind)

Spec == Init /\ [][Next]_vars

(* ------------------------------------------------------------------ *)
(* SpecPmd: the segment entries of a space that maps large pages        *)
(* ------------------------------------------------------------------ *)

PmdInit ==
    /\ GmapCreated(_REGION3_SIZE - 1)
    /\ NoSiblings
    /\ NoNotifiers
    /\ NoLockCalls
    /\ GmapListed(1)
    /\ NoShadowCreated
    /\ allow_gmap_hpage_1m = TRUE
    /\ facility \in {"tlb_guest", "idte", "none"}

\* the arguments of gmap_protect_one, and what the host's page table does
ProtCalls ==
    {<<prot, bits, TRUE, 0>> :
        prot \in {"NONE", "READ", "WRITE"}, bits \in SUBSET {"MPROT", "SHADOW"}}
    \cup {<<"READ", {"MPROT"}, FALSE, 0>>, <<"READ", {"MPROT"}, TRUE, -EAGAIN>>}

PmdNext ==
    \/ \E hs \in HSegs, pmd \in HostPmds : gmap_link(0, hs * PMD_SIZE, pmd, "none")
    \/ \E hs \in HSegs, kind \in {"unlink", "clear", "csp", "local", "global"} :
          gmap_host_invalidate(hs * PMD_SIZE, kind)
    \/ \E c \in ProtCalls : gmap_protect(PAGE_SIZE, c[1], c[2], c[3], c[4])
    \/ gmap_sync_dirty_log(0)

SpecPmd == PmdInit /\ [][PmdNext]_vars

(* ------------------------------------------------------------------ *)
(* SpecShadow: a shadow space of a parent with one segment             *)
(* ------------------------------------------------------------------ *)

\* the parent's root table in page 1, the shadow's region-third table in page 2
ShadowInit ==
    /\ NoSiblings
    /\ NoNotifiers
    /\ NoLockCalls
    /\ gmap = gmap_alloc(_REGION3_SIZE - 1, 1)
    /\ sg = ShadowCreated(_REGION2_SIZE - 1, 2)
    /\ mem = [p \in Pages |-> crst_table_init(IF p = 2 THEN sg.etype
                                               ELSE _SEGMENT_ENTRY_EMPTY)]
    /\ pg_alloc = {1, 2}
    /\ guest_to_host = [s \in SegIndices |-> 0]
    /\ host_to_guest = [s \in SegIndices |-> 0]
    /\ ret = Ret("init", 0)
    /\ events = <<>>
    /\ fwd = [s \in SegIndices |-> None]
    /\ linked = [s \in SegIndices |-> NotLinked]
    /\ host_to_rmap = [x \in RmapIndices |-> <<>>]
    /\ rmap_live = 0
    /\ thr = [t \in Threads |-> Idle]
    /\ GmapListed(2)
    /\ allow_gmap_hpage_1m = FALSE
    /\ facility = "idte"

\* level, saddr, the parent's table at [paddr, paddr + len), fake, and
\* whether the allocation of the shadow table fails; a segment table (level
\* 2) has the length of its region entry, a page table (level 1) is a page
ShadowCalls ==
    {<<2, 0, 0, 2 * PAGE_SIZE, FALSE, FALSE>>,
     <<1, 0, PAGE_SIZE, PAGE_SIZE, FALSE, FALSE>>,
     <<2, 0, 0, 2 * PAGE_SIZE, TRUE, FALSE>>,
     <<1, 0, PAGE_SIZE, PAGE_SIZE, FALSE, TRUE>>}

ShadowNext ==
    \/ gmap_map_segment(PMD_SIZE, 0, PMD_SIZE, None)
    \/ gmap_unmap_segment(0, PMD_SIZE)
    \/ \E t \in Threads, c \in ShadowCalls :
          shadow_install(t, c[1], c[2], c[3], c[4], c[5], c[6])
    \/ \E t \in Threads, fail \in {"none", "nomem", "fixup"} :
          shadow_protect(t, fail)
    \/ \E t \in Threads : shadow_finish(t)
    \/ \E fail \in {"none", "nomem", "fixup"} : gmap_shadow_page(0, PAGE_SIZE, fail)
    \/ \E vmaddr \in {PMD_SIZE, PMD_SIZE + PAGE_SIZE}, bits \in {{"VSIE"}} :
          ptep_notify(vmaddr, bits)
    \/ gmap_unshadow_call
    \/ gmap_put_call

SpecShadow == ShadowInit /\ [][ShadowNext]_vars

(* ------------------------------------------------------------------ *)
(* SpecRcu: gmap_remove and the traversals of the list of the mm       *)
(* ------------------------------------------------------------------ *)

RcuNext ==
    \/ OwnerHolds /\ gmap_map_segment(PMD_SIZE, 0, PMD_SIZE, None)
    \/ OwnerHolds /\ gmap_link(0, PMD_SIZE, [l |-> FALSE, p |-> FALSE], "none")
    \/ gmap_put_call
    \/ \E r \in Readers : rcu_read_lock(r)
    \/ \E r \in Readers : list_for_each_entry_rcu(r)
    \/ \E r \in Readers, kind \in {"notify", "unlink", "global"} :
          traverse_gmap(r, PMD_SIZE, kind)
    \/ gmap_remove_children
    \/ gmap_remove_list_del
    \/ gmap_remove_synchronize
    \/ gmap_remove_put

SpecRcu == ShadowInit /\ [][RcuNext]_vars

(* ------------------------------------------------------------------ *)
(* SpecCtx: gmap_create and gmap_remove on one mm                       *)
(* ------------------------------------------------------------------ *)

CtxNext ==
    \/ \E k \in Siblings, limit \in Limits, allocFail \in BOOLEAN :
          gmap_create(k, limit, allocFail)
    \/ \E k \in Siblings : sibling_remove_list_del(k)
    \/ \E k \in Siblings : sibling_remove_synchronize(k)
    \/ \E k \in Siblings : sibling_remove_put(k)
    \/ gmap_remove_children
    \/ gmap_remove_list_del
    \/ gmap_remove_synchronize
    \/ gmap_remove_put

SpecCtx == Init /\ [][CtxNext]_vars

(* ------------------------------------------------------------------ *)
(* SpecNotifier: the notifier list and the calls of gmap_call_notifier  *)
(* ------------------------------------------------------------------ *)

NotifierNext ==
    \/ \E n \in Notifiers : gmap_register_pte_notifier(n)
    \/ \E n \in Notifiers : gmap_unregister_list_del(n)
    \/ \E n \in Notifiers : gmap_unregister_synchronize(n)
    \/ \E n \in Notifiers : gmap_unregister_return(n)
    \/ \E d \in Callers : notifier_rcu_read_lock(d)
    \/ \E d \in Callers : gmap_call_notifier(d)
    \/ \E d \in Callers : notifier_call(d)
    \/ \E d \in Callers : notifier_call_return(d)
    \/ \E d \in Callers : notifier_rcu_read_unlock(d)

SpecNotifier == Init /\ [][NotifierNext]_vars

(* ------------------------------------------------------------------ *)
(* SpecLock: the calls that take locks, in steps                        *)
(* ------------------------------------------------------------------ *)

LockNext ==
    \/ \E t \in LockThreads, op \in LockOps :
          \E prot \in (IF op = "shadow_page" THEN {"read", "write"} ELSE {"read"}) :
             lock_call(t, op, prot)
    \/ \E t \in LockThreads : LockStep(t)

SpecLock == ShadowInit /\ [][LockNext]_vars

\* every thread that can take a step of its call takes one: a thread that
\* runs is scheduled, and a spinning thread gets a lock that stays free
SpecLockFair == SpecLock /\ \A t \in LockThreads : WF_vars(LockStep(t))

(* ------------------------------------------------------------------ *)
(* SpecOrder: every call that takes a lock, in steps                    *)
(* ------------------------------------------------------------------ *)

OrderNext ==
    \/ hugetlb_mapped
    \/ \E t \in LockThreads, op \in LockOps \cup OrderOps :
          \E prot \in (IF op = "shadow_page" THEN {"read", "write"} ELSE {"read"}) :
             order_call(t, op, prot)
    \/ \E t \in LockThreads : LockStep(t)
    \/ \E t \in LockThreads : OrderStep(t)

SpecOrder == ShadowInit /\ [][OrderNext]_vars

(* ------------------------------------------------------------------ *)
(* SpecAlloc: calls of __gmap_link that allocate tables, in steps       *)
(* ------------------------------------------------------------------ *)

AllocNext ==
    \/ \E t \in Threads, gaddr \in GAddrs, hs \in HSegs : link_enter(t, gaddr, hs * PMD_SIZE)
    \/ \E t \in Threads : link_walk(t)
    \/ \E t \in Threads, allocFail \in BOOLEAN : alloc_table_page(t, allocFail)
    \/ \E t \in Threads : alloc_table_install(t)
    \/ \E t \in Threads : alloc_table_free(t)
    \/ \E t \in Threads : link_descend(t)
    \/ \E t \in Threads, fail \in {"none", "pud_leaf", "preload"} :
          link_segment(t, [l |-> FALSE, p |-> FALSE], fail)

SpecAlloc == Init /\ [][AllocNext]_vars

(* ------------------------------------------------------------------ *)
(* Properties of Spec                                                  *)
(* ------------------------------------------------------------------ *)

\* the segment entry of guest segment s is empty (or no table holds it)
SlotEmpty(m, s) ==
    LET pmdp == gmap_table_walk(m, gmap, s * PMD_SIZE, 1) IN
    pmdp = NULL \/ Deref(m, pmdp) = _SEGMENT_ENTRY_EMPTY

\* C1 as the specification states it: once __gmap_link(gmap, addr, h) has
\* returned 0, __gmap_translate(gmap, addr) returns h until the address is
\* unlinked, unmapped or invalidated.
C1_LinkThenTranslate ==
    \A s \in SegIndices :
        linked[s].v # None =>
            \A off \in Offs :
                __gmap_translate(guest_to_host, linked[s].g + off) = linked[s].v + off

\* C1, amended: __gmap_link does not write the forward map.  When
\* __gmap_translate(gmap, addr) returned h at the time __gmap_link(gmap, addr, h)
\* returned 0, it keeps returning h until the segment is unlinked, unmapped,
\* remapped or invalidated.
C1_TranslatedLinkStays ==
    \A s \in SegIndices :
        (linked[s].v # None /\ linked[s].pre) =>
            \A off \in Offs :
                __gmap_translate(guest_to_host, linked[s].g + off) = linked[s].v + off

\* a segment is linked to the host address its forward mapping names
C1_Witness ==
    \E s \in SegIndices :
        /\ linked[s].v # None /\ linked[s].pre
        /\ ret.op = "link" /\ ret.rc = 0
        /\ ~SlotEmpty(mem, s)

\* C2: after gmap_map_segment(gmap, from, to, len) has returned 0,
\* __gmap_translate(gmap, g) returns from + (g - to) for every g of
\* [to, to + len), until the segment is unmapped or remapped; and
\* __gmap_translate changes no state.
C2_MapThenTranslate ==
    \A s \in SegIndices :
        fwd[s] # None =>
            \A off \in Offs :
                __gmap_translate(guest_to_host, s * PMD_SIZE + off) = fwd[s] + off

\* C3: when gmap_unmap_segment(gmap, to, len) returns 0, __gmap_translate
\* returns -EFAULT for every address of [to, to + len), and the segment entry
\* of every segment of the range that was linked is empty and the
\* host_to_guest entry of its host address is deleted.
C3_UnmapClears ==
    [][\A c \in UnmapCalls :
          (gmap_unmap_segment(c[1], c[2]) /\ ret'.rc = 0) =>
              \A s \in SegsOf(c[1], c[2]) :
                  /\ \A off \in Offs :
                        __gmap_translate(guest_to_host', s * PMD_SIZE + off) = -EFAULT
                  /\ linked[s].v # None =>
                        /\ SlotEmpty(mem', s)
                        /\ radix_tree_lookup(host_to_guest', linked[s].v \div PMD_SIZE) = 0]_vars

\* C3, amended: when gmap_unmap_segment(gmap, to, len) returns 0,
\* __gmap_translate returns -EFAULT for every address of [to, to + len); the
\* segment entry is empty and the host_to_guest entry deleted for every segment
\* of the range that host_to_guest recorded under the host address
\* __gmap_translate returned for it.  A segment linked under another host
\* address is not found by the unmap and stays linked.
C3_UnmapClearsTranslated ==
    [][\A c \in UnmapCalls :
          (gmap_unmap_segment(c[1], c[2]) /\ ret'.rc = 0) =>
              \A s \in SegsOf(c[1], c[2]) :
                  LET vmaddr == radix_tree_lookup(guest_to_host, s) IN
                  /\ \A off \in Offs :
                        __gmap_translate(guest_to_host', s * PMD_SIZE + off) = -EFAULT
                  /\ (/\ vmaddr # 0
                      /\ radix_tree_lookup(host_to_guest, vmaddr \div PMD_SIZE)
                            = MAKE_VALID_GADDR(s * PMD_SIZE)) =>
                        /\ SlotEmpty(mem', s)
                        /\ radix_tree_lookup(host_to_guest', vmaddr \div PMD_SIZE) = 0]_vars

\* gmap_unmap_segment has returned 0 and has cleared a linked segment entry
C3_Witness ==
    /\ ret.op = "unmap" /\ ret.rc = 0
    /\ events = <<EvFlush>>
    /\ \E s \in GSegs : SlotEmpty(mem, s) /\ gmap_table_walk(mem, gmap, s * PMD_SIZE, 1) # NULL

\* the range [addr, addr + len) is not a range of whole segments: an
\* address or the length is not segment aligned, the length is 0, or the
\* range runs over the end of the address space
BadRange(addr, len) ==
    \/ addr % PMD_SIZE # 0
    \/ len % PMD_SIZE # 0
    \/ len = 0
    \/ addr + len >= WORD

\* the call has changed neither map nor a table and has flushed nothing
NothingChanged ==
    /\ guest_to_host' = guest_to_host
    /\ host_to_guest' = host_to_guest
    /\ mem' = mem
    /\ pg_alloc' = pg_alloc
    /\ events' = <<>>

\* C17: gmap_unmap_segment returns -EINVAL when the range is bad, and
\* gmap_map_segment when the source or the target range is bad, the source
\* range ends above TASK_SIZE_MAX or the target range above gmap->asce_end;
\* a call that returns -EINVAL changes neither guest_to_host nor
\* host_to_guest nor a table and flushes nothing.
C17_InvalidArgumentChangesNothing ==
    [][/\ \A c \in UnmapCalls :
             (BadRange(c[1], c[2]) /\ gmap_unmap_segment(c[1], c[2])) =>
                 ret' = Ret("unmap", -EINVAL)
       /\ \A c \in MapCalls :
             (/\ \/ BadRange(c[1], c[3])
                 \/ BadRange(c[2], c[3])
                 \/ c[1] + c[3] - 1 > TASK_SIZE_MAX
                 \/ c[2] + c[3] - 1 > gmap.asce_end
              /\ gmap_map_segment(c[1], c[2], c[3], c[4])) =>
                 ret' = Ret("map", -EINVAL)
       /\ (ret'.op \in {"map", "unmap"} /\ ret'.rc = -EINVAL) => NothingChanged]_vars

\* gmap_map_segment has returned -EINVAL for a space that has a mapping and
\* a linked segment
C17_Witness ==
    /\ ret = Ret("map", -EINVAL)
    /\ \E s \in SegIndices : guest_to_host[s] # 0
    /\ \E s \in SegIndices : host_to_guest[s] # 0

\* the host unit the segment entry of gaddr is linked to (its origin), 0 when
\* the entry is empty or no table holds it
SlotOrigin(m, gaddr) ==
    LET pmdp == gmap_table_walk(m, gmap, gaddr, 1) IN
    IF pmdp = NULL THEN 0 ELSE Deref(m, pmdp).o

\* __gmap_link for a host segment entry that is neither large nor protected
LinkSmall(c) == gmap_link(c[1], c[2], [l |-> FALSE, p |-> FALSE], c[3])

FailingMapCalls == {c \in MapCalls : c[4] # None}

\* C27 as the specification states it: when gmap_map_segment(gmap, from, to,
\* len) returns -ENOMEM, __gmap_translate returns -EFAULT for every address
\* of [to, to + len) and the segment entry of every segment of the range is
\* empty.
C27_NomemUnwound ==
    [][(ret'.op = "map" /\ ret'.rc = -ENOMEM) =>
          \A c \in FailingMapCalls :
              gmap_map_segment(c[1], c[2], c[3], c[4]) =>
                  \A s \in SegsOf(c[2], c[3]) :
                      /\ \A off \in Offs :
                            __gmap_translate(guest_to_host', s * PMD_SIZE + off) = -EFAULT
                      /\ SlotEmpty(mem', s)]_vars

\* C27, amended: when gmap_map_segment returns -ENOMEM, __gmap_translate
\* returns -EFAULT for every address of [to, to + len), also where a mapping
\* existed before the call; the segment entry is empty and the host_to_guest
\* entry deleted for every segment of the range that host_to_guest recorded
\* under the host address of its forward mapping.  A segment of the range that
\* __gmap_link has linked under another host address stays linked.
C27_NomemUnwoundTranslated ==
    [][(ret'.op = "map" /\ ret'.rc = -ENOMEM) =>
          \A c \in FailingMapCalls :
              gmap_map_segment(c[1], c[2], c[3], c[4]) =>
                  \A s \in SegsOf(c[2], c[3]) :
                      LET vmaddr == radix_tree_lookup(guest_to_host, s) IN
                      /\ \A off \in Offs :
                            __gmap_translate(guest_to_host', s * PMD_SIZE + off) = -EFAULT
                      /\ (/\ vmaddr # 0
                          /\ radix_tree_lookup(host_to_guest, vmaddr \div PMD_SIZE)
                                = MAKE_VALID_GADDR(s * PMD_SIZE)) =>
                            /\ SlotEmpty(mem', s)
                            /\ radix_tree_lookup(host_to_guest', vmaddr \div PMD_SIZE) = 0]_vars

\* gmap_map_segment has returned -ENOMEM and has flushed: it has emptied a
\* segment entry that was linked, and nothing is mapped
C27_Witness ==
    /\ ret = Ret("map", -ENOMEM)
    /\ events = <<EvFlush>>
    /\ \A s \in GSegs : guest_to_host[s] = 0
    /\ \E s \in GSegs : SlotEmpty(mem, s) /\ gmap_table_walk(mem, gmap, s * PMD_SIZE, 1) # NULL

\* the guest segments of the space
SpaceSegs == 0 .. (gmap.asce_end \div PMD_SIZE)

\* the segment entry of guest segment g holds a link
SlotLinked(m, g) ==
    LET pmdp == gmap_table_walk(m, gmap, g * PMD_SIZE, 1) IN
    pmdp # NULL /\ Deref(m, pmdp) # _SEGMENT_ENTRY_EMPTY

\* host_to_guest and the segment entries name each other: the entry of the
\* host segment h names a linked segment entry with the origin of h, and every
\* linked segment entry is named by the entry of the host segment of its origin
LinksMatch(m, h2g) ==
    /\ \A h \in SegIndices :
          h2g[h] # 0 =>
              /\ IS_GADDR_VALID(h2g[h])
              /\ SlotLinked(m, h2g[h] \div PMD_SIZE)
              /\ Deref(m, gmap_table_walk(m, gmap, h2g[h], 1)).o = HostOrigin(h * PMD_SIZE)
    /\ \A g \in SpaceSegs :
          SlotLinked(m, g) =>
              \E h \in SegIndices :
                  /\ HostOrigin(h * PMD_SIZE)
                        = Deref(m, gmap_table_walk(m, gmap, g * PMD_SIZE, 1)).o
                  /\ h2g[h] = MAKE_VALID_GADDR(g * PMD_SIZE)
    /\ \A h1, h2 \in SegIndices : (h2g[h1] # 0 /\ h2g[h1] = h2g[h2]) => h1 = h2

\* the host segment of vmaddr is linked to another guest segment than that
\* of gaddr
LinkedElsewhere(h2g, gaddr, vmaddr) ==
    /\ h2g[vmaddr \div PMD_SIZE] # 0
    /\ h2g[vmaddr \div PMD_SIZE] \div PMD_SIZE # gaddr \div PMD_SIZE

\* a host-side invalidation of the host segment of vmaddr removes its
\* host_to_guest entry and empties the segment entry it named, and no other
InvalidatesTogether ==
    \A hs \in HSegs, kind \in InvalidateKinds :
        (ret'.op = kind /\ gmap_host_invalidate(hs * PMD_SIZE, kind)) =>
            /\ host_to_guest'[hs] = 0
            /\ \A h \in SegIndices : h # hs => host_to_guest'[h] = host_to_guest[h]
            /\ \A g \in SpaceSegs :
                  SlotLinked(mem', g) <=>
                      (SlotLinked(mem, g)
                       /\ host_to_guest[hs] # MAKE_VALID_GADDR(g * PMD_SIZE))

HardwareBits(e) == [o |-> e.o, i |-> e.i, p |-> e.p, l |-> e.l]

\* the events that are a global invalidation of the entry
GlobalFlush == {"idte_global", "csp"}

\* C8 as the specification states it: no operation stores a different value
\* into a valid segment leaf entry; every change of a valid entry goes through
\* an invalidation with a global flush.
C8_NoStoreIntoValid ==
    \A k \in 1 .. Len(events) :
        (events[k].kind = "set_pmd" /\ ~events[k].old.i /\ events[k].old.l) =>
            events[k].new = events[k].old

\* C8, amended: break-before-make covers the bits the hardware reads.  A plain
\* store into a valid segment leaf entry that leaves it valid changes only the
\* software bits GMAP_IN and GMAP_UC (gmap_protect_pmd, pmdp_notify_gmap,
\* gmap_test_and_clear_dirty_pmd); when an operation gives an entry that was
\* valid another valid value, the store follows directly on the invalidation
\* of the entry with a global flush (IDTE global or CSP), in gmap_pmdp_xchg.
C8_HardwareBitsBreakBeforeMake ==
    \A k \in 1 .. Len(events) :
        LET ev == events[k] IN
        (ev.kind = "set_pmd" /\ ~ev.new.i /\ ev.new.l) =>
            /\ ~ev.old.i => HardwareBits(ev.new) = HardwareBits(ev.old)
            /\ (ev.old.i /\ \E j \in 1 .. (k - 1) : ~events[j].old.i) =>
                  /\ k > 1
                  /\ events[k - 1].kind \in GlobalFlush
                  /\ events[k - 1].new = ev.old

\* an operation has given a valid leaf entry another valid value, and another
\* has stored a software bit into a valid leaf entry
C8_Witness ==
    /\ Len(events) > 1
    /\ ~events[1].old.i /\ events[1].old.l
    /\ \E k \in 2 .. Len(events) :
          /\ events[k].kind = "set_pmd" /\ ~events[k].new.i
          /\ events[k - 1].kind \in GlobalFlush
          /\ HardwareBits(events[k].new) # HardwareBits(events[1].old)

\* the segment entry gmap_protect_one finds for gaddr, NULL when there is none
ProtPmd(m, gaddr) == gmap_pmd_op_walk(gmap, m, allow_gmap_hpage_1m, gaddr)

\* gmap_protect_pmd asks for a fixup: the leaf is invalid and access is
\* wanted, or it is write-protected and write access is wanted
FixupNeeded(e, prot) == (e.i /\ prot # "NONE") \/ (e.p /\ prot = "WRITE")

C21_WalkStopsAtLargeLeaf ==
    \A gaddr \in GAddrs :
        LET pmdp == gmap_table_walk(mem, gmap, gaddr, 1) IN
        (pmdp # NULL /\ ~Deref(mem, pmdp).i /\ Deref(mem, pmdp).l) =>
            gmap_table_walk(mem, gmap, gaddr, 0) \in {NULL, pmdp}

\* the segment entry of guest address 0 is a valid large leaf
LargeLeaf(m) ==
    /\ ProtPmd(m, 0) # NULL
    /\ pmd_leaf(Deref(m, ProtPmd(m, 0)))
    /\ ~Deref(m, ProtPmd(m, 0)).i

\* C31: dirty tracking of a large leaf loses no write and reports none
\* twice.  gmap_sync_dirty_log_pmd reports a valid large leaf dirty exactly
\* when it is not write-protected or carries GMAP_UC, and then leaves it valid,
\* write-protected and with GMAP_UC clear; a sync that follows directly on a
\* sync reports it clean; and when __gmap_link takes its unprotect path on a
\* valid large leaf it leaves the leaf writable with GMAP_UC set, so that a
\* sync of the state it leaves reports the leaf dirty.
C31_DirtyOnceUntilWritten ==
    [][/\ (gmap_sync_dirty_log(0) /\ LargeLeaf(mem)) =>
              LET e == Deref(mem, ProtPmd(mem, 0))
                  n == Deref(mem', ProtPmd(mem, 0))
              IN  /\ (ret'.rc = 1) <=> (~e.p \/ e.uc)
                  /\ ret'.rc \in {0, 1}
                  /\ ret'.rc = 1 => ~n.i /\ n.p /\ ~n.uc /\ n.l /\ n.o = e.o
                  /\ ret'.rc = 0 => mem' = mem
                  /\ ret.op = "sync_dirty" => ret'.rc = 0
       /\ \A hs \in HSegs, pmd \in HostPmds :
              (/\ gmap_link(0, hs * PMD_SIZE, pmd, "none")
               /\ LargeLeaf(mem)
               /\ Deref(mem, ProtPmd(mem, 0)).p /\ ~pmd.p /\ pmd.l) =>
                  LET n == Deref(mem', ProtPmd(mem, 0)) IN
                  /\ ret'.rc = 0
                  /\ ~n.i /\ ~n.p /\ n.uc /\ n.l
                  /\ gmap_sync_dirty_log_pmd(gmap, mem', allow_gmap_hpage_1m,
                                             facility, 0).rc = 1]_vars

\* a large leaf that a sync had left write-protected and clean has been linked
\* again for a write access: it is writable and carries GMAP_UC
C31_Witness ==
    /\ ret = Ret("link", 0)
    /\ Len(events) > 0
    /\ ~events[1].old.i /\ events[1].old.l /\ events[1].old.p /\ ~events[1].old.uc
    /\ LargeLeaf(mem)
    /\ Deref(mem, ProtPmd(mem, 0)).uc /\ ~Deref(mem, ProtPmd(mem, 0)).p


\* C38: a gmap_protect_one that returns a negative value has left the
\* segment entry as it was (its invalid, protect and GMAP_IN bits with it)
\* and has called no notifier.
C38_ErrorLeavesEntry ==
    [][\A c \in ProtCalls :
          (gmap_protect(PAGE_SIZE, c[1], c[2], c[3], c[4]) /\ ret'.rc < 0) =>
              /\ mem' = mem
              /\ \A k \in 1 .. Len(events') : events'[k].kind # "notify"]_vars
(* ------------------------------------------------------------------ *)
(* Properties of SpecShadow                                            *)
(* ------------------------------------------------------------------ *)

\* the addresses of the shadow space, the levels of gmap_table_walk
ShadowAddrs == {k * PAGE_SIZE : k \in 0 .. (_PAGE_ENTRIES * _CRST_ENTRIES * _CRST_ENTRIES - 1)}
Levels == 0 .. 4

\* the number of struct gmap_rmap in host_to_rmap
Stored == SumLen(host_to_rmap, RmapIndices)

\* C4: once gmap_unshadow has run on the shadow space, gmap_table_walk
\* returns NULL for every address and every level in every later state, and
\* the removed flag is never cleared again.
C4_NoDanglingShadow ==
    /\ [](sg.removed =>
            \A addr \in ShadowAddrs, level \in Levels :
                gmap_table_walk(mem, sg, addr, level) = NULL)
    /\ [][sg.removed => sg'.removed]_vars

\* gmap_unshadow has run on a shadow space that had tables with rmaps, and
\* its caller still holds the space
C4_Witness ==
    /\ sg.removed
    /\ UserHolds
    /\ rmap_live > 0
    /\ pg_alloc = {gmap.table, sg.table}

\* C5 as the specification states it: after gmap_unshadow the host_to_rmap
\* store of the shadow space holds no record.
C5_RmapsReleasedByUnshadow ==
    sg.removed => \A x \in RmapIndices : host_to_rmap[x] = <<>>

\* C5, amended: gmap_unshadow leaves host_to_rmap alone; the records are
\* released when the shadow space is freed, by gmap_rmap_radix_tree_free in
\* gmap_free at the last gmap_put.  Then the store holds no record and no
\* struct gmap_rmap is live; before, the live records are those in the store:
\* none is leaked, none is freed twice.
C5_RmapsReleasedByFree ==
    /\ rmap_live = Stored
    /\ sg.ref_count = 0 =>
          /\ sg.removed
          /\ rmap_live = 0
          /\ \A x \in RmapIndices : host_to_rmap[x] = <<>>

\* the last gmap_put has freed a shadow space with records in its store
C5_Witness ==
    /\ ret.op = "gmap_put"
    /\ ret.rc > 0
    /\ sg.ref_count = 0
    /\ sg.removed

\* the calls of gmap_shadow_sgt and gmap_shadow_pgt whose page allocation succeeds
AllocCalls == {c \in ShadowCalls : ~c[6]}

\* the entry for saddr at `level` holds a table and is valid
Validated(m, saddr, level) ==
    LET table == gmap_table_walk(m, sg, saddr, level) IN
    table # NULL /\ ~Deref(m, table).i

\* the entry for saddr at `level` holds a table and is invalid: the call that
\* has installed it has not made it valid yet
BeingSetUp(m, saddr, level) ==
    LET table == gmap_table_walk(m, sg, saddr, level) IN
    table # NULL /\ Deref(m, table).i /\ Deref(m, table).o # 0

\* C6: a call of gmap_shadow_sgt or gmap_shadow_pgt that finds the entry
\* validated (and has allocated its page) returns 0, leaves the entry and
\* every table as they are, registers no rmap record and frees its page.
C6_ShadowLevelIdempotent ==
    [][\A t \in Threads, c \in AllocCalls :
          (/\ shadow_install(t, c[1], c[2], c[3], c[4], c[5], c[6])
           /\ Pages \ pg_alloc # {}
           /\ Validated(mem, c[2], c[1]))
          => /\ ret' = Ret("shadow_found", 0)
             /\ mem' = mem
             /\ pg_alloc' = pg_alloc
             /\ host_to_rmap' = host_to_rmap
             /\ rmap_live' = rmap_live
             /\ thr' = thr]_vars

\* a second call has found the validated table of a first call that
\* registered its rmap record
C6_Witness ==
    /\ ret = Ret("shadow_found", 0)
    /\ Validated(mem, 0, 2)
    /\ \E x \in RmapIndices : \E k \in 1 .. Len(host_to_rmap[x]) :
          host_to_rmap[x][k] = RmapAddr(0, 2)

\* another thread is in a call for the same entry
Concurrent(t, saddr, level) ==
    \E u \in Threads \ {t} :
        /\ thr[u].pc # "idle"
        /\ thr[u].level = level
        /\ RmapAddr(thr[u].saddr, level) = RmapAddr(saddr, level)

\* C7 as the specification states it: of two concurrent calls for the same
\* entry, the one that comes second returns 0 without installing a table.
C7_LoserReturnsSuccess ==
    [][\A t \in Threads, c \in AllocCalls :
          (/\ shadow_install(t, c[1], c[2], c[3], c[4], c[5], c[6])
           /\ Pages \ pg_alloc # {}
           /\ Concurrent(t, c[2], c[1]))
          => /\ ret' = Ret("shadow_found", 0)
             /\ mem' = mem
             /\ pg_alloc' = pg_alloc]_vars

\* C7, amended: a call that runs concurrently with another for the same
\* entry and finds a table in the entry installs nothing and keeps no page;
\* it returns 0 when the entry is validated and -EAGAIN while the other call
\* has not validated it yet.
C7_LoserInstallsNothing ==
    [][\A t \in Threads, c \in AllocCalls :
          (/\ shadow_install(t, c[1], c[2], c[3], c[4], c[5], c[6])
           /\ Pages \ pg_alloc # {}
           /\ Concurrent(t, c[2], c[1])
           /\ (Validated(mem, c[2], c[1]) \/ BeingSetUp(mem, c[2], c[1])))
          => /\ ret' = Ret("shadow_found",
                           IF Validated(mem, c[2], c[1]) THEN 0 ELSE -EAGAIN)
             /\ mem' = mem
             /\ pg_alloc' = pg_alloc
             /\ thr' = thr]_vars

\* a call has returned -EAGAIN while the table of another call in flight is
\* in the entry, not yet valid
C7_Witness ==
    /\ ret = Ret("shadow_found", -EAGAIN)
    /\ \E u \in Threads :
          /\ thr[u].pc # "idle"
          /\ BeingSetUp(mem, thr[u].saddr, thr[u].level)
          /\ Deref(mem, gmap_table_walk(mem, sg, thr[u].saddr, thr[u].level)).o = thr[u].page

\* the host pages ptep_notify reports
NotifyAddrs == {PMD_SIZE, PMD_SIZE + PAGE_SIZE}

\* the guest address ptep_notify computes for vmaddr
NotifyGaddr(vmaddr) ==
    radix_tree_lookup(host_to_guest, vmaddr \div PMD_SIZE)
        + AlignDown(vmaddr % PMD_SIZE, PAGE_SIZE)

\* the guest address lies in the top-level table the shadow space was made of
InTopLevel(gaddr) == ~sg.real_space /\ gaddr >= sg.orig_start /\ gaddr < sg.orig_end

\* the shadow structure the rmap record names is gone from the tables m of
\* the shadow space g: the entry of a table is empty, the pte of a page invalid
TornDown(m, g, rec) ==
    LET bits == rec % (_SHADOW_RMAP_MASK + 1)
        e == gmap_table_walk(m, g, rec - bits, bits - 1)
    IN  \/ e = NULL
        \/ IF bits = _SHADOW_RMAP_PGTABLE THEN Deref(m, e).i
           ELSE Deref(m, e) = EmptyAt(bits - 1)

\* the transition has emptied the rmap list of vmaddr and torn down what its
\* records named
Released(vmaddr) ==
    LET head == host_to_rmap[vmaddr \div PAGE_SIZE] IN
    /\ host_to_rmap'[vmaddr \div PAGE_SIZE] = <<>>
    /\ rmap_live' = rmap_live - Len(head)
    /\ \A k \in 1 .. Len(head) : TornDown(mem', sg', head[k])

\* C10 as the specification states it: when ptep_notify reports, with the
\* shadow bit, a host page for which a shadow child that is not removed holds
\* rmap records, the records are gone from host_to_rmap on return and what
\* they name is torn down.
C10_NotifyReleasesRmaps ==
    [][\A vmaddr \in NotifyAddrs :
          (/\ ptep_notify(vmaddr, {"VSIE"})
           /\ sg.listed /\ ~sg.removed
           /\ host_to_rmap[vmaddr \div PAGE_SIZE] # <<>>)
          => Released(vmaddr)]_vars

\* C10, amended: the records are released when the parent still maps the
\* host segment of the page (host_to_guest) and the guest address lies
\* outside the top-level table of the shadow space.  A page of the top-level
\* table makes ptep_notify unshadow the whole space and take it off the list
\* of children; its records stay in host_to_rmap until gmap_free.
C10_NotifyReleasesLinkedRmaps ==
    [][\A vmaddr \in NotifyAddrs :
          (/\ ptep_notify(vmaddr, {"VSIE"})
           /\ sg.listed /\ ~sg.removed
           /\ IS_GADDR_VALID(NotifyGaddr(vmaddr)))
          => IF InTopLevel(NotifyGaddr(vmaddr))
             THEN /\ sg'.removed /\ ~sg'.listed
                  /\ \A x \in RmapIndices :
                        \A k \in 1 .. Len(host_to_rmap[x]) :
                            TornDown(mem', sg', host_to_rmap[x][k])
             ELSE Released(vmaddr)]_vars

\* ptep_notify has freed the records of a page and left the space in place
C10_Witness ==
    /\ ret.op = "ptep_notify"
    /\ ret.rc > 1
    /\ ~sg.removed
    /\ pg_alloc = {gmap.table, sg.table}

\* C15: when a call of gmap_shadow_sgt or gmap_shadow_pgt returns an error,
\* the entry does not point at the table the call has installed: a call that
\* fails before it installs a table changes no table, a call whose
\* gmap_protect_rmap failed has run the unshadow function of its level, which
\* leaves no table in the entry, and a call that returns -EAGAIN after the
\* protection has found another table, or none, in the entry.
C15_ErrorLeavesNoBuilding ==
    [][/\ \A t \in Threads :
             (shadow_finish(t) /\ ret'.rc < 0) =>
                 LET c == thr[t]
                     table == gmap_table_walk(mem', sg', c.saddr, c.level)
                 IN  /\ table = NULL \/ Deref(mem', table).o # c.page
                     /\ c.rc # 0 => (table = NULL \/ Deref(mem', table).o = 0)
       /\ \A t \in Threads, c \in ShadowCalls :
             (/\ shadow_install(t, c[1], c[2], c[3], c[4], c[5], c[6])
              /\ thr' = thr
              /\ ret'.op = "shadow_found"
              /\ ret'.rc < 0) =>
                 mem' = mem /\ pg_alloc' = pg_alloc]_vars

\* gmap_protect_rmap has failed for the second page of the table after it
\* had registered the first, and the call has returned the error
C15_Witness ==
    /\ ret = Ret("shadow", -ENOMEM)
    /\ rmap_live > 0
    /\ ~BeingSetUp(mem, 0, 2)
    /\ ~Validated(mem, 0, 2)

\* the state of the entry for saddr at `level`: Empty (no table, or the
\* entry is not reachable), Building (a table, invalid), Validated
SlotState(m, g, saddr, level) ==
    LET table == gmap_table_walk(m, g, saddr, level) IN
    IF table = NULL THEN "Empty"
    ELSE IF Deref(m, table).o = 0 THEN "Empty"
    ELSE IF Deref(m, table).i THEN "Building"
    ELSE "Validated"

\* C16: the invalid bit of an entry that holds a table which is not fake is
\* cleared only by the call that has installed the table, after its
\* gmap_protect_rmap has returned 0, while the entry still points at the
\* table this call has installed.
C16_ValidatedByInstaller ==
    [][\A level \in {1, 2} :
          (/\ SlotState(mem, sg, 0, level) = "Building"
           /\ SlotState(mem', sg', 0, level) = "Validated") =>
              \E t \in Threads :
                  /\ shadow_finish(t)
                  /\ thr[t].level = level
                  /\ thr[t].rc = 0
                  /\ ~thr[t].lost]_vars

\* the addresses gmap_table_walk is asked for: those of the shadow space and
\* two above what three levels of tables represent
WalkAddrs == ShadowAddrs \cup {Pow2(_REGION2_SHIFT), Pow2(_REGION2_SHIFT) + PAGE_SIZE}

\* the level of the entries of the root table of g: 1 for a segment table,
\* 4 for a region-first table
TopLevel(g) == (g.asce_type \div 4) + 1

\* the index of gaddr into a table whose entries are of `level`
LevelIdx(gaddr, level) == (gaddr \div Pow2(PAGE_SHIFT + level * IdxBits)) % Pow2(IdxBits)

\* the table that holds the entry of `level` for gaddr: the root table for
\* the top level, else the table the entry one level up points to; 0 when an
\* entry above is invalid
RECURSIVE TableOf(_, _, _, _)
TableOf(m, g, gaddr, level) ==
    IF level = TopLevel(g) THEN g.table
    ELSE LET up == TableOf(m, g, gaddr, level + 1) IN
         IF up = 0 THEN 0
         ELSE IF m[up][LevelIdx(gaddr, level + 1)].i THEN 0
         ELSE m[up][LevelIdx(gaddr, level + 1)].o

\* gaddr is not above what the tables of g represent
Representable(g, gaddr) == gaddr < Pow2(PAGE_SHIFT + (TopLevel(g) + 1) * IdxBits)

\* what C20 says gmap_table_walk returns
WalkResult(m, g, gaddr, level) ==
    IF level > TopLevel(g) \/ ~Representable(g, gaddr) THEN NULL
    ELSE IF TableOf(m, g, gaddr, level) = 0 THEN NULL
    ELSE Ptr(TableOf(m, g, gaddr, level), LevelIdx(gaddr, level))

\* C20 as the specification states it: gmap_table_walk(gmap, gaddr, level)
\* returns NULL when gaddr is above what the tables of the space represent,
\* when an entry traversed above `level` is invalid and when the space has no
\* table of `level`; otherwise it returns the entry of `level` that gaddr
\* indexes.
C20_WalkReturnsEntry ==
    \A g \in {gmap, sg}, gaddr \in WalkAddrs, level \in Levels :
        gmap_table_walk(mem, g, gaddr, level) = WalkResult(mem, g, gaddr, level)

\* C20, amended: as above for every space that is not a removed shadow; for
\* a shadow space that gmap_unshadow has marked removed gmap_table_walk
\* returns NULL for every address and every level.
C20_WalkReturnsEntryUnlessRemoved ==
    \A g \in {gmap, sg}, gaddr \in WalkAddrs, level \in Levels :
        gmap_table_walk(mem, g, gaddr, level) =
            IF gmap_is_shadow(g) /\ g.removed THEN NULL
            ELSE WalkResult(mem, g, gaddr, level)

\* the shadow space has a validated segment table and page table: the walk
\* finds entries on all its levels, NULL above the top level and NULL above
\* the representable addresses
C20_Witness ==
    /\ ~sg.removed
    /\ \E gaddr \in ShadowAddrs :
          /\ gaddr # 0
          /\ gmap_table_walk(mem, sg, gaddr, 0) # NULL
          /\ gmap_table_walk(mem, sg, gaddr, 0).ix # 0
          /\ gmap_table_walk(mem, sg, gaddr, TopLevel(sg) + 1) = NULL
    /\ \E gaddr \in ShadowAddrs : gmap_table_walk(mem, sg, gaddr, 0) = NULL
    /\ \E gaddr \in WalkAddrs :
          ~Representable(sg, gaddr) /\ gmap_table_walk(mem, sg, gaddr, TopLevel(sg)) = NULL

\* the tables of the state, with a record of what a teardown does to them
TearTables == Logged(Tables(mem, pg_alloc, 0))

\* what gmap_unshadow, gmap_unshadow_pgt .. gmap_unshadow_r2t and
\* gmap_unshadow_page do, in order, when they run in this state
UnshadowLog == gmap_unshadow(sg, TearTables).t.log
LevelLog(raddr, level) == gmap_unshadow_level(sg, TearTables, raddr, level).log
PageLog(raddr) == gmap_unshadow_page(sg, TearTables, raddr).log
TableLogs == {UnshadowLog} \cup {LevelLog(raddr, level) : raddr \in ShadowAddrs, level \in 1 .. 4}

\* the steps of the record L that empty an entry, free the page c, work on
\* the table in page c
Clears(L) == {k \in 1 .. Len(L) : L[k].kind = "clear"}
Frees(L, c) == {k \in 1 .. Len(L) : L[k].kind = "free" /\ L[k].pg = c}
Within(L, c) == {k \in 1 .. Len(L) : L[k].kind \in {"clear", "pte", "idte"} /\ L[k].pg = c}
Idtes(L, e) == {k \in 1 .. Len(L) : L[k].kind = "idte" /\ L[k].pg = e.pg /\ L[k].ix = e.ix}

TeardownAddrs == ShadowAddrs \cup {RmapAddr(a, l) : a \in ShadowAddrs, l \in 1 .. 2}

\* the notifier is called first, for [start, end], and only once
NotifiedFirst(L, start, end) ==
    /\ L[1] = UEv("notify", 0, 0, start, end)
    /\ \A k \in 2 .. Len(L) : L[k].kind # "notify"

\* C23: gmap_unshadow_page, gmap_unshadow_pgt, gmap_unshadow_sgt,
\* gmap_unshadow_r3t, gmap_unshadow_r2t and gmap_unshadow call the notifier
\* for the range of the entry (of the whole space) before they empty the
\* entry, before an entry below it is emptied and before a table is freed.
C23_NotifyBeforeClear ==
    /\ \A raddr \in TeardownAddrs, level \in 1 .. 4 :
          LevelLog(raddr, level) # <<>> =>
              NotifiedFirst(LevelLog(raddr, level), raddr, raddr + RangeOf(level) - 1)
    /\ \A raddr \in TeardownAddrs :
          PageLog(raddr) # <<>> =>
              NotifiedFirst(PageLog(raddr), raddr, raddr + PAGE_SIZE - 1)
    /\ ~sg.removed => NotifiedFirst(UnshadowLog, 0, ULONG_MAX)
    /\ sg.removed => UnshadowLog = <<>>

\* the shadow space has a valid shadow pte in a page table: gmap_unshadow_page
\* and gmap_unshadow_pgt both have something to remove
C23_Witness ==
    /\ ~sg.removed
    /\ \E raddr \in ShadowAddrs :
          /\ Len(PageLog(raddr)) = 2
          /\ Len(LevelLog(raddr, 1)) >= 5
          /\ Len(UnshadowLog) >= 7

\* the calls of gmap_shadow_sgt and gmap_shadow_pgt with fake set
FakeCalls == {c \in ShadowCalls : c[5]}

\* C29: a call of gmap_shadow_sgt or gmap_shadow_pgt with fake set does not
\* go on to gmap_protect_rmap; where it installs its table the entry of the
\* shadow space is valid at once and 0 is returned, and the entry and the new
\* table are the only change: the table of the parent, guest_to_host,
\* host_to_guest and host_to_rmap are as before and no struct gmap_rmap exists
\* that did not before.
C29_FakeInstallsOnlySlot ==
    [][\A t \in Threads : \A c \in FakeCalls :
          shadow_install(t, c[1], c[2], c[3], c[4], c[5], c[6]) =>
             \E table \in {gmap_table_walk(mem, sg, c[2], c[1])} :
                /\ \A u \in Threads : thr'[u].pc = thr[u].pc
                /\ thr'[t].pc = "idle"
                /\ host_to_rmap' = host_to_rmap
                /\ rmap_live' = rmap_live
                /\ guest_to_host' = guest_to_host
                /\ host_to_guest' = host_to_guest
                /\ gmap' = gmap
                /\ sg' = sg
                /\ mem'[gmap.table] = mem[gmap.table]
                /\ IF table # NULL /\ Deref(mem, table).i /\ Deref(mem, table).o = 0
                      /\ Pages \ pg_alloc # {}
                   THEN /\ ret' = Ret("shadow", 0)
                        /\ ~Deref(mem', table).i
                        /\ pg_alloc' = pg_alloc \cup {Deref(mem', table).o}
                        /\ Deref(mem', table).o \notin pg_alloc
                        /\ \A p \in Pages \ {table.pg, Deref(mem', table).o} :
                              mem'[p] = mem[p]
                        /\ \A ix \in DOMAIN mem[table.pg] \ {table.ix} :
                              mem'[table.pg][ix] = mem[table.pg][ix]
                   ELSE /\ ret'.op = "shadow_found"
                        /\ UNCHANGED <<mem, pg_alloc>>]_vars

\* a fake call has installed a segment table in the shadow space: the entry
\* is valid, no call is in flight and no struct gmap_rmap exists
C29_Witness ==
    /\ ret = Ret("shadow", 0)
    /\ rmap_live = 0
    /\ \A t \in Threads : thr[t].pc = "idle"
    /\ \E c \in FakeCalls :
          \E table \in {gmap_table_walk(mem, sg, c[2], c[1])} :
             /\ table # NULL
             /\ ~Deref(mem, table).i
             /\ Deref(mem, table).o \in pg_alloc

\* the struct gmap_rmap that are allocated and in no list of host_to_rmap
RmapsOutside(store, live) == live - SumLen(store, RmapIndices)

\* C25: gmap_shadow_page changes host_to_rmap only in a call that finds the
\* shadow pte invalid, makes it valid and returns 0, and then by one record
\* with the raddr of the page at the head of the list of the host page; a
\* call that finds the shadow pte valid leaves host_to_rmap as it is; and
\* after every call, whatever it returns, as many struct gmap_rmap are
\* allocated outside host_to_rmap as before: the record of the call has been
\* inserted or freed.
C25_RmapOnlyOnNewInstall ==
    [][\A fail \in {"none", "nomem", "fixup"} :
          gmap_shadow_page(0, PAGE_SIZE, fail) =>
             \E tptep \in {gmap_table_walk(mem, sg, 0, 0)} :
             \E raddr \in {AlignDown(0, PAGE_SIZE) + _SHADOW_RMAP_PGTABLE} :
                /\ host_to_rmap' # host_to_rmap =>
                      /\ tptep # NULL
                      /\ Deref(mem, tptep).i
                      /\ ~Deref(mem', tptep).i
                      /\ ret'.rc = 0
                      /\ rmap_live' = rmap_live + 1
                      /\ \E x \in RmapIndices :
                            host_to_rmap' = [host_to_rmap EXCEPT ![x] = <<raddr>> \o @]
                /\ (tptep # NULL /\ ~Deref(mem, tptep).i) =>
                      /\ host_to_rmap' = host_to_rmap
                      /\ rmap_live' = rmap_live
                /\ ret'.rc # 0 => host_to_rmap' = host_to_rmap /\ rmap_live' = rmap_live
                /\ RmapsOutside(host_to_rmap', rmap_live')
                      = RmapsOutside(host_to_rmap, rmap_live)]_vars

\* gmap_shadow_page has made the shadow pte valid and returned 0, and the
\* record of the page is in the list of a host page
C25_Witness ==
    /\ ret = Ret("shadow_page", 0)
    /\ \E tptep \in {gmap_table_walk(mem, sg, 0, 0)} :
          tptep # NULL /\ ~Deref(mem, tptep).i
    /\ \E x \in RmapIndices : \E k \in 1 .. Len(host_to_rmap[x]) :
          host_to_rmap[x][k] = AlignDown(0, PAGE_SIZE) + _SHADOW_RMAP_PGTABLE
    /\ RmapsOutside(host_to_rmap, rmap_live) = 0

\* the host pages that back the parent's table at [paddr, paddr + len), which
\* the parent maps at host address PMD_SIZE
BackingPages(paddr, len) ==
    {(PMD_SIZE + paddr + k * PAGE_SIZE) \div PAGE_SIZE : k \in 0 .. ((len \div PAGE_SIZE) - 1)}

\* host_to_rmap holds a record with raddr for the host page of `index`
HasRmap(store, index, raddr) ==
    \E k \in 1 .. Len(store[index]) : store[index][k] = raddr

\* C32: shadow consistency.  Whenever the entry of a shadow table that is
\* not fake is validated (it holds a table and its invalid bit is clear),
\* host_to_rmap of the shadow space holds, for every page of the parent's
\* table it shadows, a record with the address and the level of the entry, so
\* that a change of the page in the parent tears the table down.  The page
\* table of shadow address 0 shadows the parent's page at PAGE_SIZE.
C32_ValidatedIsProtected ==
    Validated(mem, 0, 1) =>
        \A index \in BackingPages(PAGE_SIZE, PAGE_SIZE) :
            HasRmap(host_to_rmap, index, RmapAddr(0, 1))

\* the entries of the tables that hold the table page p
Refs(m, p) ==
    {s \in Pages \X (0 .. (_CRST_ENTRIES - 1)) : m[s[1]][s[2]].o = p}

\* C33: every table page a call of gmap_shadow_sgt or gmap_shadow_pgt has
\* allocated is installed in exactly one entry or has been freed, under every
\* interleaving with other calls and with the teardowns: no page is leaked
\* (an allocated page that is not the top-level table of a space is held by
\* exactly one entry), none is freed while an entry points at it (an entry
\* never holds a page that is not allocated, and a step frees only pages that
\* no entry holds afterwards), and none is freed twice (a page that a step
\* frees was allocated and held by at most one entry before).
C33_TablePagesInstalledOrFreed ==
    /\ [](\A p \in Pages :
            /\ p \in pg_alloc \ {gmap.table, sg.table} => Cardinality(Refs(mem, p)) = 1
            /\ p \notin pg_alloc => Refs(mem, p) = {}
            /\ p \in {gmap.table, sg.table} => Refs(mem, p) = {})
    /\ [][\A p \in pg_alloc \ pg_alloc' :
              /\ Cardinality(Refs(mem, p)) <= 1
              /\ Refs(mem', p) = {}]_vars

\* a teardown has freed the table of a call in flight, and the page has been
\* allocated again and installed for another call
C33_Witness ==
    \E t \in Threads :
        /\ thr[t].lost
        /\ thr[t].page \in pg_alloc
        /\ Cardinality(Refs(mem, thr[t].page)) = 1

\* C34: when gmap_protect_rmap has failed for a call of gmap_shadow_sgt or
\* gmap_shadow_pgt, the teardown the call runs removes only the table the
\* call has installed: where the entry is gone, or holds a table that another
\* call has installed after a teardown had emptied the entry (another page, or
\* the page of this call, freed and allocated again), the step changes no
\* table and frees no page.
C34_TeardownOfOwnTableOnly ==
    [][\A t \in Threads :
          (shadow_finish(t) /\ thr[t].rc # 0) =>
              LET table == gmap_table_walk(mem, sg, thr[t].saddr, thr[t].level) IN
              (\/ table = NULL
               \/ Deref(mem, table).o # thr[t].page
               \/ thr[t].lost) =>
                  mem' = mem /\ pg_alloc' = pg_alloc]_vars


\* the call of thread t is about to insert a record for a host page whose
\* list holds a record with the same raddr
InsertsDuplicate(t) ==
    /\ thr[t].pc = "protect"
    /\ __gmap_translate(guest_to_host, thr[t].paddr) >= 0
    /\ gmap_table_walk(mem, gmap, thr[t].paddr, 1) # NULL
    /\ ~Deref(mem, gmap_table_walk(mem, gmap, thr[t].paddr, 1)).i
    /\ HasRmap(host_to_rmap, __gmap_translate(guest_to_host, thr[t].paddr) \div PAGE_SIZE,
               RmapAddr(thr[t].saddr, thr[t].level))

\* C40: no list of host_to_rmap holds two records with the same raddr, and
\* the records allocated are the records in the lists; a gmap_protect_rmap
\* or gmap_shadow_page that inserts a record whose raddr the list of the
\* host page holds already leaves the lists as they are and the record
\* freed, once.
C40_NoDuplicateRmap ==
    /\ [](/\ \A x \in RmapIndices : \A j, k \in 1 .. Len(host_to_rmap[x]) :
                host_to_rmap[x][j] = host_to_rmap[x][k] => j = k
          /\ rmap_live = SumLen(host_to_rmap, RmapIndices))
    /\ [][/\ \A t \in Threads :
                (InsertsDuplicate(t) /\ shadow_protect(t, "none")) =>
                    host_to_rmap' = host_to_rmap /\ rmap_live' = rmap_live
          /\ \A x \in RmapIndices :
                (/\ HasRmap(host_to_rmap, x, AlignDown(0, PAGE_SIZE) + _SHADOW_RMAP_PGTABLE)
                 /\ \E fail \in {"none", "nomem", "fixup"} :
                       gmap_shadow_page(0, PAGE_SIZE, fail)) =>
                    host_to_rmap'[x] = host_to_rmap[x] /\ rmap_live' = rmap_live]_vars

\* gmap_protect_rmap, called for a page table that is shadowed again, is
\* about to insert the record of the table for a host page whose list has
\* kept the record of the table that was torn down
C40_Witness ==
    \E t \in Threads :
       /\ InsertsDuplicate(t)
       /\ thr[t].level = 1
       /\ ret.op = "ptep_notify"
(* ------------------------------------------------------------------ *)
(* Properties of SpecRcu                                               *)
(* ------------------------------------------------------------------ *)

\* C9: a traversal of mm->context.gmap_list that has the gmap never has it
\* after gmap_free; the gmap_put of gmap_remove comes after the gmap is off
\* the list and after every traversal that ran at the removal has ended.
C9_GracePeriodSafety ==
    /\ [](\A r \in Readers : rd[r].pc = "visit" => gmap_ref_count > 0)
    /\ [][gmap_remove_put =>
            /\ mm.gmap_list = <<>>
            /\ \A r \in Readers : ~(rd[r].before /\ rd[r].pc # "idle")]_vars

\* gmap_remove has waited for a traversal and its gmap_put has freed the gmap
C9_Witness ==
    /\ rm.pc = "done"
    /\ rm.waited
    /\ gmap_ref_count = 0
    /\ mm.gmap_list = <<>>

(* ------------------------------------------------------------------ *)
(* Properties of SpecNotifier                                          *)
(* ------------------------------------------------------------------ *)

\* C12: after gmap_unregister_pte_notifier(nb) has returned, no call of
\* gmap_call_notifier is at nb: its callback is not running and is not the
\* next to be called, also for a call that began before the unregistration.
C12_UnregisteredNeverCalled ==
    \A n \in Notifiers :
        nbs[n].pc = "unregistered" =>
            \A d \in Callers : disp[d].pc \in {"walk", "callback"} => disp[d].cur # n

\* an unregistration has returned after it waited for a call of
\* gmap_call_notifier that ran when it began, and a later call is calling
\* the callback of another notifier block
C12_Witness ==
    \E n \in Notifiers :
        /\ nbs[n].pc = "unregistered"
        /\ nbs[n].waited
        /\ \E d \in Callers : disp[d].pc = "callback" /\ disp[d].cur # n

\* the place of x in the sequence
Pos(seq, x) == CHOOSE i \in 1 .. Len(seq) : seq[i] = x

\* the notifier blocks that are registered
Registered == {reg_order[i] : i \in 1 .. Len(reg_order)}

\* the call d of gmap_call_notifier has called every callback that stayed
\* registered, and none twice
CalledOnce(d) ==
    LET calls == disp[d].calls IN
    /\ \A i, j \in 1 .. Len(calls) : i # j => calls[i] # calls[j]
    /\ disp[d].stable \subseteq {calls[i] : i \in 1 .. Len(calls)}

\* C13 as the specification states it: a call of gmap_call_notifier calls
\* every registered callback once, in the order of registration.
C13_RegistrationOrder ==
    \A d \in Callers :
        disp[d].pc = "called" =>
            /\ CalledOnce(d)
            /\ \A i, j \in 1 .. Len(disp[d].calls) :
                  (i < j /\ disp[d].calls[i] \in Registered
                         /\ disp[d].calls[j] \in Registered) =>
                      Pos(reg_order, disp[d].calls[i]) < Pos(reg_order, disp[d].calls[j])

\* C13, amended: a call of gmap_call_notifier calls, within the call, every
\* callback that is registered from its begin to its end exactly once, and
\* it calls them in the reverse order of registration, the callback
\* registered last first (list_add_rcu inserts at the head of the list).
C13_ReverseRegistrationOrder ==
    \A d \in Callers :
        disp[d].pc = "called" =>
            /\ CalledOnce(d)
            /\ \A i, j \in 1 .. Len(disp[d].calls) :
                  (i < j /\ disp[d].calls[i] \in Registered
                         /\ disp[d].calls[j] \in Registered) =>
                      Pos(reg_order, disp[d].calls[i]) > Pos(reg_order, disp[d].calls[j])

\* a call of gmap_call_notifier has called two callbacks that are registered
C13_Witness ==
    \E d \in Callers :
        /\ disp[d].pc = "called"
        /\ Len(disp[d].calls) = 2
        /\ disp[d].stable = {disp[d].calls[1], disp[d].calls[2]}

(* ------------------------------------------------------------------ *)
(* Properties of SpecCtx                                               *)
(* ------------------------------------------------------------------ *)

\* the asce of the gmaps that are attached to the mm: gmap_create has
\* returned them and gmap_remove has not taken them off the list
AttachedAsces ==
    (IF rm.pc \in {"idle", "list_del"} THEN {Asce(gmap)} ELSE {})
    \cup {Asce(siblings[k].g) : k \in {x \in Siblings : siblings[x].pc = "listed"}}

\* C14: with mm->context.lock free, mm->context.gmap_asce is the asce of the
\* attached gmap when exactly one is attached, -1 when more than one is
\* attached, and 0 when gmap_remove has left none attached.
C14_GmapAsceOfAttached ==
    mm.gmap_asce = IF AttachedAsces = {} THEN 0
                   ELSE IF Cardinality(AttachedAsces) = 1
                        THEN CHOOSE a \in AttachedAsces : TRUE
                        ELSE 0 - 1

\* gmap_remove has left one gmap of three attached, one that gmap_create
\* has added to the list later
C14_Witness ==
    /\ rm.pc \in {"sync", "wait", "done"}
    /\ \E k \in Siblings :
          /\ siblings[k].pc = "listed"
          /\ mm.gmap_asce = Asce(siblings[k].g)
          /\ \E x \in Siblings : siblings[x].pc \in {"sync", "wait"}

(* ------------------------------------------------------------------ *)
(* SpecLife: gmap_get, gmap_put, gmap_remove and shadow notifications   *)
(* ------------------------------------------------------------------ *)

\* bound: the references to one address space
MaxRefs == 3

\* gmap_get: refcount_inc(&gmap->ref_count)
gmap_get(ref_count) == ref_count + 1

\* the references to the gmap besides the one of the caller of gmap_create
\* and the one of its shadow space: those that gmap_get has returned
ExtraRefs ==
    gmap_ref_count - (IF rm.pc = "done" THEN 0 ELSE 1)
                   - (IF sg.ref_count > 0 THEN 1 ELSE 0)

\* a holder of a reference to the shadow space calls gmap_get on it
gmap_get_shadow ==
    /\ UserHolds
    /\ sg.ref_count < MaxRefs
    /\ sg' = [sg EXCEPT !.ref_count = gmap_get(@)]
    /\ events' = <<>>
    /\ UNCHANGED <<mem, pg_alloc, gmap, guest_to_host, host_to_guest, allow_gmap_hpage_1m,
                   facility, ret, fwd, linked, host_to_rmap, rmap_live, thr>>
    /\ UNCHANGED <<lifeVars, globalVars, lockVars>>

\* a holder of a reference to the gmap calls gmap_get on it
gmap_get_gmap ==
    /\ OwnerHolds \/ ExtraRefs > 0
    /\ gmap_ref_count < MaxRefs
    /\ gmap_ref_count' = gmap_get(gmap_ref_count)
    /\ UNCHANGED <<mapVars, shadowVars, mm, rm, rd>>
    /\ UNCHANGED <<globalVars, lockVars>>

\* the holder of a reference that gmap_get has returned calls gmap_put
gmap_put_gmap_call ==
    /\ ExtraRefs > 0
    /\ \E p \in {gmap_put_gmap(gmap_ref_count, Tables(mem, pg_alloc, 0),
                               guest_to_host, host_to_guest)} :
       /\ gmap_ref_count' = p.ref
       /\ mem' = p.t.mem
       /\ pg_alloc' = p.t.alloc
       /\ guest_to_host' = p.g2h
       /\ host_to_guest' = p.h2g
    /\ events' = <<>>
    /\ UNCHANGED <<gmap, allow_gmap_hpage_1m, facility, ret, fwd, linked, shadowVars,
                   mm, rm, rd>>
    /\ UNCHANGED <<globalVars, lockVars>>

LifeNext ==
    \/ OwnerHolds /\ gmap_map_segment(PMD_SIZE, 0, PMD_SIZE, None)
    \/ OwnerHolds /\ gmap_link(0, PMD_SIZE, [l |-> FALSE, p |-> FALSE], "none")
    \/ gmap_get_shadow
    \/ gmap_get_gmap
    \/ gmap_put_call
    \/ gmap_put_gmap_call
    \/ \E r \in Readers : rcu_read_lock(r)
    \/ \E r \in Readers : list_for_each_entry_rcu(r)
    \/ \E r \in Readers : traverse_gmap(r, PMD_SIZE, "notify")
    \/ gmap_remove_children
    \/ gmap_remove_list_del
    \/ gmap_remove_synchronize
    \/ gmap_remove_put

SpecLife == ShadowInit /\ [][LifeNext]_vars

(* ------------------------------------------------------------------ *)
(* Properties of SpecLife                                              *)
(* ------------------------------------------------------------------ *)

\* gmap_free has run on the shadow space, on the gmap
ShadowFreed == sg.ref_count = 0
GmapFreed == gmap_ref_count = 0

\* C26: an address space is freed once, by the gmap_put that takes its
\* reference count from one to zero, its root table is allocated until then,
\* and the gmap is not freed before its shadow space is: the step that frees
\* the gmap finds the shadow space freed or frees it first.
C26_FreedOnceAtZero ==
    [][/\ (ShadowFreed => ShadowFreed')
       /\ (GmapFreed => GmapFreed')
       /\ (~ShadowFreed => sg.table \in pg_alloc)
       /\ (~GmapFreed => gmap.table \in pg_alloc)
       /\ (~ShadowFreed /\ ShadowFreed' =>
              sg.ref_count = 1 /\ sg.table \notin pg_alloc')
       /\ (~GmapFreed /\ GmapFreed' =>
              gmap_ref_count = 1 /\ gmap.table \notin pg_alloc' /\ ShadowFreed')
       /\ (GmapFreed' => ShadowFreed')]_vars

\* the last gmap_put of the shadow space has come after gmap_remove has
\* put the reference of the owner: it has freed the shadow space and then
\* the gmap
C26_Witness ==
    /\ GmapFreed
    /\ ShadowFreed
    /\ rm.pc = "done"
    /\ ret.op = "gmap_put"
    /\ gmap.table \notin pg_alloc

\* the step is a notification that visits the gmap, or the loop of
\* gmap_remove over gmap->children
NotifiesOrRemoves ==
    \/ /\ rm'.pc = "list_del"
       /\ gmap_remove_children
    \/ /\ rd' # rd
       /\ \E r \in Readers : traverse_gmap(r, PMD_SIZE, "notify")

\* C36: the shadow space is taken off gmap->children, and the reference of
\* the list is put, exactly once, by gmap_remove of the parent or by the
\* notification that hits its top-level table, under every interleaving of
\* the two: a space that is off the list is never on it again, the step that
\* takes it off the list puts one reference, gmap_remove and a notification
\* put no reference of a space that is not on the list, the reference count is
\* never below zero and is above zero while the space is on the list, and a
\* notification leaves a freed space as it is.
C36_ListReferencePutOnce ==
    /\ [](sg.ref_count >= 0 /\ (sg.listed => sg.ref_count > 0))
    /\ [][/\ ~sg.listed => ~sg'.listed
          /\ (sg.listed /\ ~sg'.listed) => sg'.ref_count = sg.ref_count - 1
          /\ NotifiesOrRemoves =>
                /\ sg'.ref_count # sg.ref_count => (sg.listed /\ ~sg'.listed)
                /\ sg.ref_count = 0 =>
                      UNCHANGED <<sg, mem, pg_alloc, host_to_rmap, rmap_live>>]_vars

\* a notification for the top-level table has taken the shadow space off the
\* list, gmap_remove of the parent has then found no child, and the caller of
\* gmap_shadow still holds its reference
C36_Witness ==
    /\ sg.removed
    /\ ~sg.listed
    /\ sg.ref_count > 0
    /\ rm.pc \in {"list_del", "sync", "wait", "done"}

(* ------------------------------------------------------------------ *)
(* Properties of SpecLock                                              *)
(* ------------------------------------------------------------------ *)

\* thread t holds both locks and has taken `first` before `second`
TookBefore(t, first, second) ==
    \E i, j \in 1 .. Len(lt[t].held) :
       i < j /\ lt[t].held[i] = first /\ lt[t].held[j] = second

\* C24 as stated: a thread that holds a guest_table_lock and a host
\* page-table lock has taken the guest_table_lock first.
C24_SpaceLockFirst ==
    \A t \in LockThreads : \A p \in PageTableLocks, g \in SpaceLocks :
       ~TookBefore(t, p, g)

\* C24: a thread that holds a guest_table_lock and a host page-table lock
\* has taken the page-table lock first and the guest_table_lock second, in
\* __gmap_link, gmap_protect_rmap, gmap_shadow_page and ptep_notify alike;
\* and gmap->shadow_lock is taken before sg->guest_table_lock.
C24_PageTableLockFirst ==
    \A t \in LockThreads :
       /\ \A p \in PageTableLocks, g \in SpaceLocks : ~TookBefore(t, g, p)
       /\ ~TookBefore(t, "sg_gtl", "shadow_lock")
       /\ ~TookBefore(t, "shadow_lock", "pte_ptl")
       /\ (\E k \in 1 .. Len(lt[t].held) : lt[t].held[k] \in SpaceLocks)
             /\ lt[t].op \in {"link", "shadow_pgt", "shadow_page", "notify"}
             /\ lt[t].pc \notin {"pgt_install", "pgt_finish"}
          => lt[t].held[1] \in PageTableLocks

\* ptep_notify holds the lock of the pte, gmap->shadow_lock and
\* sg->guest_table_lock while gmap_shadow_page spins for the lock of the pte
C24_Witness ==
    \E t, u \in LockThreads :
       /\ lt[t].op = "notify"
       /\ lt[t].held = <<"pte_ptl", "shadow_lock", "sg_gtl">>
       /\ lt[u].op = "shadow_page"
       /\ lt[u].pc = "page_walk"
       /\ gpage.linked

\* C28: a thread that is about to call gmap_pte_op_fixup, in
\* gmap_protect_rmap under gmap_shadow_pgt, in gmap_shadow_page and in
\* gmap_read_table, holds no guest_table_lock, no page-table lock and no
\* shadow_lock.
C28_NoLockAcrossFixup ==
    \A t \in LockThreads : lt[t].pc = "fixup" => lt[t].held = <<>>

\* gmap_protect_rmap, called by gmap_shadow_pgt, is about to call
\* gmap_pte_op_fixup after a pass with both locks, while another thread
\* holds a lock
C28_Witness ==
    \E t, u \in LockThreads :
       /\ lt[t].op = "shadow_pgt"
       /\ lt[t].pc = "fixup"
       /\ gpage.linked
       /\ gpage.pgt = "invalid"
       /\ lt[u].held # <<>>

\* the calls with a retry loop: gmap_shadow_pgt (the loop of
\* gmap_protect_rmap), gmap_shadow_page, gmap_read_table
LoopOps == {"shadow_pgt", "shadow_page", "read_table"}

\* the call of thread t returns in this step
Returns(t) == lt[t].op \in LoopOps /\ lt[t].pc # "done" /\ lt'[t].pc = "done"

\* C30: a call of gmap_shadow_page, gmap_protect_rmap (under
\* gmap_shadow_pgt) or gmap_read_table that returns 0 leaves the shadow pte
\* valid, the shadow page table valid, resp. has read a pte that is present;
\* a pass that finds no translation, and a gmap_pte_op_fixup that fails, end
\* the loop with -EFAULT; and with fixup_user_fault bringing the page in,
\* finitely many changes of the host pte and every running thread
\* scheduled, every call returns.
C30_LoopsTerminate ==
    /\ [][\A t \in LockThreads :
             /\ Returns(t) /\ lt'[t].rc = 0 =>
                   CASE lt[t].op = "shadow_page" -> gpage'.spte
                     [] lt[t].op = "shadow_pgt" -> gpage'.pgt = "valid"
                     [] lt[t].op = "read_table" -> gpage.pte # "none"
             /\ Returns(t) => lt'[t].rc \in {0, -EFAULT, -ENOMEM, -EAGAIN}
             /\ lt[t].pc \in {"rmap_translate", "page_translate", "read_translate"}
                   /\ ~gpage.mapped /\ lt'[t] # lt[t]
                => lt'[t].rc = -EFAULT /\ lt'[t].pc \in {"done", "pgt_sg_relock"}
             /\ lt[t].pc = "fixup" /\ lt'[t].pc \in {"done", "pgt_sg_relock"}
                => lt'[t].rc = -EFAULT]_vars
    /\ \A t \in LockThreads :
          (lt[t].op \in LoopOps /\ lt[t].pc # "done") ~> (lt[t].pc = "done")

\* the one call made, of gmap_read_table, has returned 0 after three passes:
\* fixup_user_fault has returned with *unlocked set once, and __gmap_link
\* has linked the segment
C30_Witness ==
    \E t \in LockThreads :
       /\ lt[t].op = "read_table"
       /\ lt[t].pc = "done"
       /\ lt[t].rc = 0
       /\ gpage.calls = 1
       /\ gpage.unlocked = 1
       /\ gpage.linked


(* ------------------------------------------------------------------ *)
(* Properties of SpecOrder                                             *)
(* ------------------------------------------------------------------ *)

\* the order of the locks: the page-table locks of the host, then
\* gmap->guest_table_lock, gmap->shadow_lock, sg->guest_table_lock; the
\* locks of the two lists are taken with no other lock
LockRank(l) ==
    CASE l \in PageTableLocks -> 1
      [] l = "gmap_gtl" -> 2
      [] l = "shadow_lock" -> 3
      [] l = "sg_gtl" -> 4
      [] l \in ListLocks -> 5

\* the locks are held in the order of their ranks
RankOrdered(held) ==
    \A i, j \in 1 .. Len(held) : i < j => LockRank(held[i]) < LockRank(held[j])

\* thread t holds lock l
Holds(t, l) == \E k \in 1 .. Len(lt[t].held) : lt[t].held[k] = l

\* C37: no deadlock.  Every thread holds its locks in one order (host
\* page-table lock, gmap->guest_table_lock, gmap->shadow_lock,
\* sg->guest_table_lock; mm->context.lock and gmap_notifier_lock alone), no
\* lock is held by two threads, and while a thread is in a call some thread
\* can take a step; a thread that is in no call holds no lock, and no step
\* of a thread unlocks a lock that another thread holds.
C37_NoDeadlock ==
    /\ [](\A t \in LockThreads :
             /\ RankOrdered(lt[t].held)
             /\ (\E l \in ListLocks : Holds(t, l)) => Len(lt[t].held) = 1
             /\ ~Running(t) => lt[t].held = <<>>
             /\ \A u \in LockThreads \ {t} : \A l \in {"pmd_ptl", "pte_ptl", "gmap_gtl",
                      "shadow_lock", "sg_gtl", "context_lock", "gmap_notifier_lock"} :
                   ~(Holds(t, l) /\ Holds(u, l)))
    /\ []((\E t \in LockThreads : Running(t)) =>
             ENABLED (\E t \in LockThreads : LockStep(t) \/ OrderStep(t)))
    /\ [][\A t, u \in LockThreads : (lt'[t] # lt[t] /\ lt'[u] # lt[u]) => t = u]_vars

\* gmap_protect_one holds gmap->guest_table_lock for the large leaf while
\* gmap_pmdp_clear, called with the lock of the host pmd, spins for it
C37_Witness ==
    \E t, u \in LockThreads :
       /\ lt[t].op = "protect"
       /\ lt[t].pc = "prot_pmd"
       /\ lt[t].held = <<"gmap_gtl">>
       /\ lt[u].op = "invalidate"
       /\ lt[u].pc = "inv_gtl_lock"
       /\ lt[u].held = <<"pmd_ptl">>

(* ------------------------------------------------------------------ *)
(* Properties of SpecAlloc                                             *)
(* ------------------------------------------------------------------ *)

\* the entries of the top-level table of the gmap that hold a table
RegionEntries ==
    IF gmap.asce_type = _ASCE_TYPE_SEGMENT THEN {}
    ELSE {ix \in 0 .. (_CRST_ENTRIES - 1) : ~mem[gmap.table][ix].i}

\* the pages that calls of gmap_alloc_table hold
HeldPages == {thr[t].page : t \in Threads} \ {0}

\* the segment table that the tables of the gmap give for gaddr
SegmentTableOf(gaddr) ==
    IF gmap.asce_type = _ASCE_TYPE_SEGMENT THEN gmap.table
    ELSE mem[gmap.table][Idx(gaddr, _REGION3_SHIFT)].o

\* C39: of the calls of __gmap_link that find the same entry of a region
\* table invalid, one stores its new table and the others free theirs: an
\* entry that holds a table is never stored to again; the allocated pages
\* are the top-level table, one table per entry that holds one, and the
\* pages of the calls between the allocation and the free; and every call
\* goes on to the segment entry in the table the entry holds.
C39_OneTableInstalled ==
    /\ [](/\ pg_alloc = {gmap.table} \cup {mem[gmap.table][ix].o : ix \in RegionEntries}
                           \cup HeldPages
          /\ \A ix \in RegionEntries :
                /\ mem[gmap.table][ix].o \notin HeldPages \cup {gmap.table}
                /\ \A iy \in RegionEntries :
                      mem[gmap.table][ix].o = mem[gmap.table][iy].o => ix = iy
          /\ \A t, u \in Threads : thr[t].page # 0 /\ thr[t].page = thr[u].page => t = u
          /\ \A t \in Threads :
                /\ thr[t].page # 0 => thr[t].pc \in {"alloc_locked", "alloc_free"}
                /\ thr[t].pc = "alloc_free" /\ thr[t].page = 0 =>
                      ~Deref(mem, LinkEntry(thr[t])).i
                /\ thr[t].pc \in {"link_descend"} => ~Deref(mem, LinkEntry(thr[t])).i
                /\ thr[t].pc = "link_segment" =>
                      /\ thr[t].level = _ASCE_TYPE_SEGMENT
                      /\ thr[t].paddr = SegmentTableOf(thr[t].saddr)
                      /\ thr[t].paddr \in pg_alloc)
    /\ [][\A ix \in RegionEntries : mem'[gmap.table][ix] = mem[gmap.table][ix]]_vars

\* two calls have allocated a table for the same entry: one has stored its
\* page and has gone on to the segment table, the other is about to free
\* the page it holds
C39_Witness ==
    \E t, u \in Threads :
       /\ thr[t].pc = "alloc_free"
       /\ thr[t].page # 0
       /\ thr[u].pc = "link_segment"
       /\ LinkEntry(thr[t]) = Ptr(gmap.table, Idx(thr[u].saddr, _REGION3_SHIFT))
       /\ thr[u].paddr = Deref(mem, LinkEntry(thr[t])).o
       /\ thr[u].paddr # thr[t].page
       /\ pg_alloc = {gmap.table, thr[u].paddr, thr[t].page}
====
